---- MODULE Spec2Model ----
(***************************************************************************)
(* The proxy pool store of proxy_bot (src/proxybot/database_postgres.py    *)
(* and src/proxybot/database.py) and the tasks that use it.                *)
(*                                                                         *)
(* One store object with ONE connection is created in main.run and handed  *)
(* to every handler and to both workers.  Every `await` of a statement, a  *)
(* commit or a rollback is a suspension point, so the model takes one      *)
(* step per statement; the connection's transaction (its status and what a *)
(* rollback would restore) is shared by all tasks.                         *)
(***************************************************************************)
EXTENDS Integers, Sequences, FiniteSets, TLC

\* ---------------------------------------------------------------- bounds
MaxPort == 2
MaxUsers == 2
MaxDevices == 2
MaxTime == 1
MaxPayments == 2
MaxPoolRows == 3
MaxCred == 2
MaxConcurrent == 2
MaxCalls == 3
MaxSyncs == 1
MaxDays == 1
\* the payment ids a run with admin grants reaches
MaxGrantedPayment == 7
\* the relay engine: the longest method list, username and password a
\* client sends, the longest domain name, the chunks a peer sends during the
\* relay, the entries of a pool file, the calls of load_or_create_pool
MaxLen == 2
MaxDomain == 1
MaxChunks == 1
MaxEntries == 2
MaxLoads == 2

Ports == 1..MaxPort
Users == 1..MaxUsers
DeviceCounts == 1..MaxDevices
Creds == 1..MaxCred
\* the id sequences stop here (a rolled back insert still uses up its id on
\* PostgreSQL, so a payment can be tried again and ids outnumber payments)
MaxSubscriptions == MaxPayments
MaxLinks == MaxSubscriptions * MaxDevices

Handlers == {"h1", "h2"}
Workers == {"expiration_worker", "proxy_pool_sync_worker"}
Tasks == Handlers \cup Workers

\* SQL NULL in an id column
NULL == 0

VARIABLES
    backend,        \* which store class create_database returned
    concurrency,    \* how many calls may be in progress at once (1: a serial run)
    now,            \* now_ts()
    proxy_pool,     \* port -> row of table proxy_pool
    payments,       \* id -> row of table payments
    subscriptions,  \* id -> row of table subscriptions
    proxy_links,    \* id -> row of table proxy_links
    lastid,         \* the id sequences of the four tables
    txn,            \* the connection's transaction status
    saved,          \* <<tables as of the transaction's start>> while one is open
    task,           \* per task: the running call, its position and its locals
    calls,          \* calls started so far in a run with interleaving
    syncs,          \* pool reconciliations started so far
    before,         \* per task: <<the tables when its call started>> (serial runs)
    notices,        \* subscription id -> times its subscriber was returned by a sweep
    trail,          \* the last calls of a serial run: allocate (stage 1), revoke-all
                    \* (2), count (3); or a sweep (4) and the sweep after it (5)
    pool_file,      \* what the relay engine's pool file holds
    loads,          \* the calls of load_or_create_pool: its arguments and results
    expected_username,  \* the credential the listener of the connection's
    expected_password,  \* port was started with
    conn,           \* handle_client: where it waits, and its locals
    sock,           \* the client's and the upstream's stream (reader and writer)
    pipe            \* the two pipe_stream tasks of the relay

\* the bot's process: the store and its tasks
bot == <<backend, concurrency, now, proxy_pool, payments, subscriptions, proxy_links,
         lastid, txn, saved, task, calls, syncs, before, notices, trail>>

\* the relay engine's process (src/infra/socks/socks_farm.py)
farm == <<pool_file, loads, expected_username, expected_password, conn, sock, pipe>>

vars == <<bot, farm>>

tables == <<proxy_pool, payments, subscriptions, proxy_links, lastid>>

\* ------------------------------------------------------------ the tables
Store == [proxy_pool |-> proxy_pool, payments |-> payments,
          subscriptions |-> subscriptions, proxy_links |-> proxy_links,
          lastid |-> lastid]

\* f with key k bound to v (k new or not)
Put(f, k, v) == [x \in (DOMAIN f) \cup {k} |-> IF x = k THEN v ELSE f[x]]

\* f without the keys in ks
Drop(f, ks) == [x \in (DOMAIN f) \ ks |-> f[x]]

RECURSIVE SortedSeq(_)
\* the elements of a finite set of integers in ascending order (ORDER BY ... ASC)
SortedSeq(S) ==
    IF S = {} THEN << >>
    ELSE LET m == CHOOSE x \in S : \A y \in S : x <= y
         IN <<m>> \o SortedSeq(S \ {m})

Min(a, b) == IF a < b THEN a ELSE b

\* ------------------------------------------------- the tasks' call frames
Idle == [op |-> "idle", pc |-> "idle", user_id |-> 0, payment_id |-> 0,
         devices_count |-> 0, expires_at |-> 0, timestamp |-> 0,
         proxy_rows |-> << >>, device_number |-> 0, subscription_id |-> 0,
         link_id |-> 0, created |-> << >>, link_ids |-> {}, entries |-> << >>,
         rows |-> {}, leases |-> {}, result |-> "none", count |-> 0]

AllIdle == \A u \in Tasks : task[u].pc = "idle"

InProgress == Cardinality({u \in Tasks : task[u].pc # "idle"})

\* a call's last statement and its return run without an await in between,
\* so no other task runs before the call has returned
Returning == \E u \in Tasks : task[u].pc = "done"

\* calls run one at a time, none switching to another task inside a call
serial == concurrency = 1

\* a call may start while fewer than `concurrency` calls are in progress;
\* handlers are interchangeable, so h2 takes a call only while h1 is busy
MayStart(t) ==
    /\ task[t].pc = "idle" /\ ~Returning
    /\ serial \/ calls < MaxCalls
    /\ InProgress < concurrency
    /\ t = "h2" => task["h1"].pc # "idle"

\* interleaved runs count the calls they start
Started == calls' = IF serial THEN calls ELSE calls + 1

At(t, op, pc) == task[t].op = op /\ task[t].pc = pc /\ ~Returning

\* task t moves on with the fields of its frame given in `upd` replaced
Goto(t, upd) ==
    task' = [task EXCEPT ![t] = [f \in DOMAIN Idle |->
                 IF f \in DOMAIN upd THEN upd[f] ELSE task[t][f]]]

\* the call ends; its result stays visible in the frame until Return
Finish(t, res) == Goto(t, [pc |-> "done", result |-> res])

\* ------------------------------------------- the connection's transaction
\* PostgreSQL refuses every statement of a transaction that has failed
Aborted == backend = "postgres" /\ txn = "INERROR"

\* a statement that changes rows: they become `new`.  PostgreSQL runs it in
\* the open transaction, or commits it at once (autocommit) when none is
\* open; sqlite3 opens a transaction in front of it when none is open.
Write(new) ==
    /\ proxy_pool' = new.proxy_pool
    /\ payments' = new.payments
    /\ subscriptions' = new.subscriptions
    /\ proxy_links' = new.proxy_links
    /\ lastid' = new.lastid
    /\ IF backend = "sqlite" /\ txn = "IDLE"
       THEN txn' = "INTRANS" /\ saved' = <<Store>>
       ELSE UNCHANGED <<txn, saved>>

\* a statement that changes nothing (a SELECT, or an UPDATE matching no row)
Read == UNCHANGED <<tables, txn, saved>>

\* a statement that raises: inside a PostgreSQL transaction it fails the
\* transaction; the rows stay as they were (sequence values stay used up)
Error(ids) ==
    /\ UNCHANGED <<proxy_pool, payments, subscriptions, proxy_links, saved>>
    /\ lastid' = IF backend = "postgres" THEN ids ELSE lastid
    /\ txn' = IF backend = "postgres" /\ txn = "INTRANS" THEN "INERROR" ELSE txn

\* conn.commit(): nothing to do when no transaction is open; COMMIT of a
\* failed PostgreSQL transaction rolls it back
CommitEffect ==
    IF txn = "INERROR"
    THEN /\ proxy_pool' = saved[1].proxy_pool
         /\ payments' = saved[1].payments
         /\ subscriptions' = saved[1].subscriptions
         /\ proxy_links' = saved[1].proxy_links
         /\ UNCHANGED lastid
         /\ txn' = "IDLE" /\ saved' = << >>
    ELSE /\ UNCHANGED tables
         /\ txn' = "IDLE" /\ saved' = << >>

\* conn.rollback(): the rows go back to the transaction's start; the id
\* sequences go back with them on SQLite only
RollbackEffect ==
    IF txn = "IDLE"
    THEN UNCHANGED <<tables, txn, saved>>
    ELSE /\ proxy_pool' = saved[1].proxy_pool
         /\ payments' = saved[1].payments
         /\ subscriptions' = saved[1].subscriptions
         /\ proxy_links' = saved[1].proxy_links
         /\ lastid' = IF backend = "sqlite" THEN saved[1].lastid ELSE lastid
         /\ txn' = "IDLE" /\ saved' = << >>

\* execute("BEGIN") / execute("BEGIN IMMEDIATE"): TRUE when it raises.
\* PostgreSQL only warns when a transaction is already open; SQLite raises.
BeginRaises ==
    IF backend = "postgres" THEN txn = "INERROR" ELSE txn # "IDLE"

BeginEffect ==
    IF txn = "IDLE"
    THEN txn' = "INTRANS" /\ saved' = <<Store>> /\ UNCHANGED tables
    ELSE UNCHANGED <<tables, txn, saved>>

\* what a reader on another connection, or a restart, finds in the store
Committed == IF txn = "IDLE" THEN Store ELSE saved[1]

\* ------------------------------------------------------------ allocation
\* activate_payment_and_create_subscription_from_pool, statement by statement

\* UPDATE payments SET status = 'paid' WHERE id, user_id, status = 'pending'
PendingPayment(s, payment_id, user_id) ==
    /\ payment_id \in DOMAIN s.payments
    /\ s.payments[payment_id].user_id = user_id
    /\ s.payments[payment_id].status = "pending"

MarkPaid(s, payment_id) ==
    [s EXCEPT !.payments[payment_id].status = "paid"]

\* SELECT id, port, username, password FROM proxy_pool
\* WHERE status = 'free' ORDER BY port ASC LIMIT n
FreePorts(pool) == {p \in DOMAIN pool : pool[p].status = "free"}

\* a faulty variant of the query below: ORDER BY port DESC
SelectFreeDesc(pool, n) ==
    LET sorted == SortedSeq(FreePorts(pool))
    IN [k \in 1..Min(n, Len(sorted)) |->
           [id |-> pool[sorted[Len(sorted) - k + 1]].id,
            port |-> sorted[Len(sorted) - k + 1],
            username |-> pool[sorted[Len(sorted) - k + 1]].username,
            password |-> pool[sorted[Len(sorted) - k + 1]].password]]

SelectFree(pool, n) ==
    LET sorted == SortedSeq(FreePorts(pool))
    IN [k \in 1..Min(n, Len(sorted)) |->
           [id |-> pool[sorted[k]].id, port |-> sorted[k],
            username |-> pool[sorted[k]].username,
            password |-> pool[sorted[k]].password]]

\* INSERT INTO subscriptions ... RETURNING id
NextId(s, tbl) == s.lastid[tbl] + 1

UsedId(s, tbl) == [s.lastid EXCEPT ![tbl] = @ + 1]

\* the row breaks payment_id's UNIQUE or its foreign key
SubscriptionRefused(s, payment_id) ==
    \/ payment_id \notin DOMAIN s.payments
    \/ \E x \in DOMAIN s.subscriptions : s.subscriptions[x].payment_id = payment_id

InsertSubscription(s, user_id, payment_id, expires_at) ==
    [s EXCEPT !.subscriptions = Put(@, NextId(s, "subscriptions"),
                  [user_id |-> user_id, payment_id |-> payment_id,
                   status |-> "active", expires_at |-> expires_at,
                   notified_expired |-> 0]),
              !.lastid = UsedId(s, "subscriptions")]

\* INSERT INTO proxy_links ... RETURNING id; the link text carries the
\* port and the credentials of the pool row it was built from
LinkRefused(s, subscription_id) == subscription_id \notin DOMAIN s.subscriptions

InsertLink(s, subscription_id, user_id, device_number, row, expires_at) ==
    [s EXCEPT !.proxy_links = Put(@, NextId(s, "proxy_links"),
                  [subscription_id |-> subscription_id, user_id |-> user_id,
                   device_number |-> device_number,
                   link |-> [port |-> row.port, username |-> row.username,
                             password |-> row.password],
                   status |-> "active", expires_at |-> expires_at]),
              !.lastid = UsedId(s, "proxy_links")]

\* UPDATE proxy_pool SET status = 'assigned', assigned_link_id = link_id
\* WHERE id = row_id AND status = 'free'
AssignMatches(pool, row_id) ==
    {p \in DOMAIN pool : pool[p].id = row_id /\ pool[p].status = "free"}

AssignPool(s, row_id, link_id) ==
    [s EXCEPT !.proxy_pool = [p \in DOMAIN @ |->
        IF p \in AssignMatches(@, row_id)
        THEN [@[p] EXCEPT !.status = "assigned", !.assigned_link_id = link_id]
        ELSE @[p]]]

\* the INSERTs an allocation in progress still has in front of it
SubscriptionToInsert(u) ==
    /\ task[u].op = "activate"
    /\ task[u].pc \in {"begin", "pay", "select", "subscription"}

LinksToInsert(u) ==
    IF task[u].op # "activate" THEN 0
    ELSE IF task[u].pc \in {"begin", "pay", "select", "subscription"}
         THEN task[u].devices_count
    ELSE IF task[u].pc = "link"
         THEN task[u].devices_count - task[u].device_number + 1
    ELSE IF task[u].pc = "assign"
         THEN task[u].devices_count - task[u].device_number
    ELSE 0

RECURSIVE LinksToInsertBy(_)
LinksToInsertBy(S) ==
    IF S = {} THEN 0
    ELSE LET u == CHOOSE x \in S : TRUE
         IN LinksToInsert(u) + LinksToInsertBy(S \ {u})

\* the id sequences reach far enough for one more allocation of n links
\* beside those in progress
IdsLeft(n) ==
    /\ lastid.subscriptions + Cardinality({u \in Handlers : SubscriptionToInsert(u)})
           < MaxSubscriptions
    /\ lastid.proxy_links + LinksToInsertBy(Handlers) + n <= MaxLinks

\* ------------------------------------------------------ what a run records
\* `before` and `trail` are kept in serial runs, where "the store before the
\* call" and "the call that follows" are well defined
NoTrail == [stage |-> 0, user_id |-> 0, free |-> 0, held |-> 0, first |-> 0,
            count |-> 0]

\* the links revoke_all_active_links_for_user would pick for user_id at time ts
ActiveLinksOf(s, user_id, ts) ==
    {l \in DOMAIN s.proxy_links :
        /\ s.proxy_links[l].user_id = user_id
        /\ s.proxy_links[l].status = "active"
        /\ s.proxy_links[l].expires_at > ts}

BoundTo(pool, ls) == {p \in DOMAIN pool : pool[p].assigned_link_id \in ls}

\* a handler calls the method for a payment it has just read
Activate_Call(t) ==
    /\ t \in Handlers /\ MayStart(t)
    /\ \E payment_id \in DOMAIN payments, days \in 1..MaxDays :
        /\ IdsLeft(payments[payment_id].devices_count)
        /\ Goto(t, [op |-> "activate", pc |-> "begin",
                    payment_id |-> payment_id,
                    user_id |-> payments[payment_id].user_id,
                    devices_count |-> payments[payment_id].devices_count,
                    expires_at |-> now + days, timestamp |-> now])
    /\ before' = [before EXCEPT ![t] = IF serial THEN <<Store>> ELSE << >>]
    /\ trail' = NoTrail
    /\ Started
    /\ UNCHANGED <<farm, backend, concurrency, syncs, now, tables, txn, saved, notices>>

\* await self.conn.execute("BEGIN"), in front of the try block
Activate_Begin(t) ==
    /\ At(t, "activate", "begin")
    /\ BeginEffect
    /\ IF BeginRaises THEN Finish(t, "raised") ELSE Goto(t, [pc |-> "pay"])
    /\ UNCHANGED <<farm, backend, concurrency, calls, syncs, now, before, notices, trail>>

Activate_UpdatePayment(t) ==
    /\ At(t, "activate", "pay")
    /\ IF Aborted
       THEN Error(lastid) /\ Goto(t, [pc |-> "except"])
       ELSE IF PendingPayment(Store, task[t].payment_id, task[t].user_id)
            THEN /\ Write(MarkPaid(Store, task[t].payment_id))
                 /\ Goto(t, [pc |-> "select"])
            ELSE Write(Store) /\ Goto(t, [pc |-> "rollback"])
    /\ UNCHANGED <<farm, backend, concurrency, calls, syncs, now, before, notices, trail>>

Activate_SelectFree(t) ==
    /\ At(t, "activate", "select")
    /\ IF Aborted
       THEN Error(lastid) /\ Goto(t, [pc |-> "except"])
       ELSE LET proxy_rows == SelectFree(proxy_pool, task[t].devices_count)
            IN /\ Read
               /\ IF Len(proxy_rows) < task[t].devices_count
                  THEN Goto(t, [pc |-> "rollback"])
                  ELSE Goto(t, [pc |-> "subscription", proxy_rows |-> proxy_rows])
    /\ UNCHANGED <<farm, backend, concurrency, calls, syncs, now, before, notices, trail>>

\* a faulty variant of the step below: return None without the rollback
Activate_ReturnNone(t) ==
    /\ At(t, "activate", "rollback")
    /\ CommitEffect
    /\ Finish(t, "None")
    /\ UNCHANGED <<farm, backend, concurrency, calls, syncs, now, before, notices, trail>>

\* await self.conn.rollback(); return None
Activate_RollbackNone(t) ==
    /\ At(t, "activate", "rollback")
    /\ RollbackEffect
    /\ Finish(t, "None")
    /\ UNCHANGED <<farm, backend, concurrency, calls, syncs, now, before, notices, trail>>

Activate_InsertSubscription(t) ==
    /\ At(t, "activate", "subscription")
    /\ \E fault \in {FALSE, serial} :
        /\ IF Aborted \/ fault
           THEN Error(lastid) /\ Goto(t, [pc |-> "except"])
           ELSE IF SubscriptionRefused(Store, task[t].payment_id)
                THEN /\ Error(UsedId(Store, "subscriptions"))
                     /\ Goto(t, [pc |-> "except"])
                ELSE /\ Write(InsertSubscription(Store, task[t].user_id,
                                  task[t].payment_id, task[t].expires_at))
                     /\ Goto(t, [pc |-> "link", device_number |-> 1,
                                 subscription_id |-> NextId(Store, "subscriptions")])
    /\ UNCHANGED <<farm, backend, concurrency, calls, syncs, now, before, notices, trail>>

Activate_InsertLink(t) ==
    /\ At(t, "activate", "link")
    /\ \E fault \in {FALSE, serial} :
        /\ IF Aborted \/ fault
           THEN Error(lastid) /\ Goto(t, [pc |-> "except"])
           ELSE IF LinkRefused(Store, task[t].subscription_id)
                THEN /\ Error(UsedId(Store, "proxy_links"))
                     /\ Goto(t, [pc |-> "except"])
                ELSE /\ Write(InsertLink(Store, task[t].subscription_id,
                                  task[t].user_id, task[t].device_number,
                                  task[t].proxy_rows[task[t].device_number],
                                  task[t].expires_at))
                     /\ Goto(t, [pc |-> "assign",
                                 link_id |-> NextId(Store, "proxy_links")])
    /\ UNCHANGED <<farm, backend, concurrency, calls, syncs, now, before, notices, trail>>

\* the UPDATE of the pool row; no row changed raises RuntimeError
Activate_AssignPool(t) ==
    /\ At(t, "activate", "assign")
    /\ LET row == task[t].proxy_rows[task[t].device_number]
       IN \E fault \in {FALSE, serial} :
        /\ IF Aborted \/ fault
           THEN Error(lastid) /\ Goto(t, [pc |-> "except"])
           ELSE IF AssignMatches(proxy_pool, row.id) = {}
                THEN Write(Store) /\ Goto(t, [pc |-> "except"])
                ELSE IF task[t].link_id \notin DOMAIN proxy_links
                     THEN Error(lastid) /\ Goto(t, [pc |-> "except"])
                     ELSE /\ Write(AssignPool(Store, row.id, task[t].link_id))
                          /\ Goto(t, [pc |-> IF task[t].device_number
                                                  = task[t].devices_count
                                               THEN "commit" ELSE "link",
                                      device_number |-> task[t].device_number + 1,
                                      created |-> Append(task[t].created,
                                          [proxy_id |-> task[t].link_id,
                                           port |-> row.port])])
    /\ UNCHANGED <<farm, backend, concurrency, calls, syncs, now, before, notices, trail>>

\* await self.conn.commit(); return subscription_id, created
Activate_Commit(t) ==
    /\ At(t, "activate", "commit")
    /\ CommitEffect
    /\ Finish(t, "ok")
    /\ trail' = IF serial
                THEN [stage |-> 1, user_id |-> task[t].user_id,
                      free |-> Cardinality(FreePorts(before[t][1].proxy_pool)),
                      held |-> Cardinality(BoundTo(before[t][1].proxy_pool,
                                  ActiveLinksOf(before[t][1], task[t].user_id,
                                                task[t].timestamp))),
                      first |-> 0, count |-> 0]
                ELSE NoTrail
    /\ UNCHANGED <<farm, backend, concurrency, calls, syncs, now, before, notices>>

\* a faulty variant of the step below: re-raise, the transaction not rolled
\* back but ended as it stands
Activate_ExceptKeeping(t) ==
    /\ At(t, "activate", "except")
    /\ UNCHANGED tables
    /\ txn' = "IDLE" /\ saved' = << >>
    /\ Finish(t, "raised")
    /\ UNCHANGED <<farm, backend, concurrency, calls, syncs, now, before, notices, trail>>

\* except Exception: await self.conn.rollback(); raise
Activate_Except(t) ==
    /\ At(t, "activate", "except")
    /\ RollbackEffect
    /\ Finish(t, "raised")
    /\ UNCHANGED <<farm, backend, concurrency, calls, syncs, now, before, notices, trail>>

\* -------------------------------------------------------------- payments
\* cancel_pending_payment: UPDATE payments SET status = 'cancelled'
\* WHERE id, user_id, status = 'pending'
MarkCancelled(s, payment_id) ==
    [s EXCEPT !.payments[payment_id].status = "cancelled"]

Cancel_Call(t) ==
    /\ t \in Handlers /\ MayStart(t)
    /\ \E payment_id \in DOMAIN payments, user_id \in Users :
          Goto(t, [op |-> "cancel", pc |-> "update",
                   payment_id |-> payment_id, user_id |-> user_id])
    /\ trail' = NoTrail
    /\ Started
    /\ UNCHANGED <<farm, backend, concurrency, syncs, now, tables, txn, saved, before, notices>>

Cancel_Update(t) ==
    /\ At(t, "cancel", "update")
    /\ IF Aborted
       THEN Error(lastid) /\ Finish(t, "raised")
       ELSE IF PendingPayment(Store, task[t].payment_id, task[t].user_id)
            THEN /\ Write(MarkCancelled(Store, task[t].payment_id))
                 /\ Goto(t, [pc |-> "commit", count |-> 1])
            ELSE Write(Store) /\ Goto(t, [pc |-> "commit", count |-> 0])
    /\ UNCHANGED <<farm, backend, concurrency, calls, syncs, now, before, notices, trail>>

Cancel_Commit(t) ==
    /\ At(t, "cancel", "commit")
    /\ CommitEffect
    /\ Finish(t, IF task[t].count > 0 THEN "True" ELSE "False")
    /\ UNCHANGED <<farm, backend, concurrency, calls, syncs, now, before, notices, trail>>

\* a faulty variant of the query below: COUNT(*) without the WHERE
count_pool(pool) == Cardinality(DOMAIN pool)

\* count_free_pool: SELECT COUNT(*) FROM proxy_pool WHERE status = 'free'
count_free_pool(pool) == Cardinality(FreePorts(pool))

CountFree_Call(t) ==
    /\ t \in Handlers /\ MayStart(t)
    /\ Goto(t, [op |-> "count_free_pool", pc |-> "select"])
    /\ trail' = IF trail.stage = 2 THEN trail ELSE NoTrail
    /\ Started
    /\ UNCHANGED <<farm, backend, concurrency, syncs, now, tables, txn, saved, before, notices>>

CountFree_Select(t) ==
    /\ At(t, "count_free_pool", "select")
    /\ IF Aborted
       THEN Error(lastid) /\ Finish(t, "raised") /\ trail' = NoTrail
       ELSE /\ Read
            /\ Goto(t, [pc |-> "done", result |-> "ok",
                        count |-> count_free_pool(proxy_pool)])
            /\ trail' = IF trail.stage = 2
                        THEN [trail EXCEPT !.stage = 3,
                                           !.count = count_free_pool(proxy_pool)]
                        ELSE NoTrail
    /\ UNCHANGED <<farm, backend, concurrency, calls, syncs, now, before, notices>>

\* ------------------------------------------------------------ revocation
\* (PostgresDatabase only: class Database has neither method)

\* UPDATE proxy_links SET status = 'expired', expires_at = ts WHERE id IN ids
RevokeLinks(s, ids, ts) ==
    [s EXCEPT !.proxy_links = [l \in DOMAIN @ |->
        IF l \in ids THEN [@[l] EXCEPT !.status = "expired", !.expires_at = ts]
        ELSE @[l]]]

\* a faulty variant of the statement below: SET status = 'free' alone
FreePoolKeepingLink(s, ids) ==
    [s EXCEPT !.proxy_pool = [p \in DOMAIN @ |->
        IF @[p].assigned_link_id # NULL /\ @[p].assigned_link_id \in ids
        THEN [@[p] EXCEPT !.status = "free"]
        ELSE @[p]]]

\* UPDATE proxy_pool SET status = 'free', assigned_link_id = NULL
\* WHERE assigned_link_id IN ids
FreePool(s, ids) ==
    [s EXCEPT !.proxy_pool = [p \in DOMAIN @ |->
        IF @[p].assigned_link_id # NULL /\ @[p].assigned_link_id \in ids
        THEN [@[p] EXCEPT !.status = "free", !.assigned_link_id = NULL]
        ELSE @[p]]]

\* a faulty variant of the condition below: without expires_at > ts
NoActiveLink(s, x, ts) ==
    ~ \E l \in DOMAIN s.proxy_links :
        /\ s.proxy_links[l].subscription_id = x
        /\ s.proxy_links[l].status = "active"

\* NOT EXISTS (SELECT 1 FROM proxy_links WHERE subscription_id = x
\*             AND status = 'active' AND expires_at > ts)
NoLiveLink(s, x, ts) ==
    ~ \E l \in DOMAIN s.proxy_links :
        /\ s.proxy_links[l].subscription_id = x
        /\ s.proxy_links[l].status = "active"
        /\ s.proxy_links[l].expires_at > ts

\* a faulty variant of the statement below: SET status = 'expired',
\* expires_at = ts, as the UPDATE of proxy_links has it
ExpireEmptySubscriptionsAsOf(s, xs, ts) ==
    [s EXCEPT !.subscriptions = [x \in DOMAIN @ |->
        IF x \in xs /\ @[x].status = "active" /\ NoLiveLink(s, x, ts)
        THEN [@[x] EXCEPT !.status = "expired", !.expires_at = ts]
        ELSE @[x]]]

\* UPDATE subscriptions SET status = 'expired' WHERE id IN xs
\* AND status = 'active' AND NOT EXISTS (...)
ExpireEmptySubscriptions(s, xs, ts) ==
    [s EXCEPT !.subscriptions = [x \in DOMAIN @ |->
        IF x \in xs /\ @[x].status = "active" /\ NoLiveLink(s, x, ts)
        THEN [@[x] EXCEPT !.status = "expired"]
        ELSE @[x]]]

\* a faulty variant of the query below: without status = 'active'
OwnLink(s, user_id, proxy_link_id) ==
    /\ proxy_link_id \in DOMAIN s.proxy_links
    /\ s.proxy_links[proxy_link_id].user_id = user_id

\* a faulty variant of the query below: without user_id = user_id
AnyActiveLink(s, user_id, proxy_link_id) ==
    /\ proxy_link_id \in DOMAIN s.proxy_links
    /\ s.proxy_links[proxy_link_id].status = "active"

\* SELECT id, subscription_id FROM proxy_links
\* WHERE id = proxy_link_id AND user_id = user_id AND status = 'active'
OwnActiveLink(s, user_id, proxy_link_id) ==
    /\ proxy_link_id \in DOMAIN s.proxy_links
    /\ s.proxy_links[proxy_link_id].user_id = user_id
    /\ s.proxy_links[proxy_link_id].status = "active"

SubscriptionsOfUser(s, user_id) ==
    {x \in DOMAIN s.subscriptions : s.subscriptions[x].user_id = user_id}

Revoke_Call(t) ==
    /\ t \in Handlers /\ MayStart(t) /\ backend = "postgres"
    /\ \E user_id \in Users, proxy_link_id \in DOMAIN proxy_links :
          Goto(t, [op |-> "revoke", pc |-> "begin", user_id |-> user_id,
                   link_id |-> proxy_link_id, timestamp |-> now])
    /\ before' = [before EXCEPT ![t] = IF serial THEN <<Store>> ELSE << >>]
    /\ trail' = NoTrail
    /\ Started
    /\ UNCHANGED <<farm, backend, concurrency, syncs, now, tables, txn, saved, notices>>

Revoke_Begin(t) ==
    /\ At(t, "revoke", "begin")
    /\ BeginEffect
    /\ IF BeginRaises THEN Finish(t, "raised") ELSE Goto(t, [pc |-> "select"])
    /\ UNCHANGED <<farm, backend, concurrency, calls, syncs, now, before, notices, trail>>

Revoke_Select(t) ==
    /\ At(t, "revoke", "select")
    /\ IF Aborted
       THEN Error(lastid) /\ Goto(t, [pc |-> "except"])
       ELSE /\ Read
            /\ IF OwnActiveLink(Store, task[t].user_id, task[t].link_id)
               THEN Goto(t, [pc |-> "link",
                             subscription_id |->
                                 proxy_links[task[t].link_id].subscription_id])
               ELSE Goto(t, [pc |-> "rollback"])
    /\ UNCHANGED <<farm, backend, concurrency, calls, syncs, now, before, notices, trail>>

\* await self.conn.rollback(); return False
Revoke_RollbackFalse(t) ==
    /\ At(t, "revoke", "rollback")
    /\ RollbackEffect
    /\ Finish(t, "False")
    /\ UNCHANGED <<farm, backend, concurrency, calls, syncs, now, before, notices, trail>>

Revoke_UpdateLink(t) ==
    /\ At(t, "revoke", "link")
    /\ \E fault \in {FALSE, serial} :
       IF Aborted \/ fault
       THEN Error(lastid) /\ Goto(t, [pc |-> "except"])
       ELSE /\ Write(RevokeLinks(Store, {task[t].link_id}, task[t].timestamp))
            /\ Goto(t, [pc |-> "pool"])
    /\ UNCHANGED <<farm, backend, concurrency, calls, syncs, now, before, notices, trail>>

Revoke_UpdatePool(t) ==
    /\ At(t, "revoke", "pool")
    /\ IF Aborted
       THEN Error(lastid) /\ Goto(t, [pc |-> "except"])
       ELSE /\ Write(FreePool(Store, {task[t].link_id}))
            /\ Goto(t, [pc |-> "subscription"])
    /\ UNCHANGED <<farm, backend, concurrency, calls, syncs, now, before, notices, trail>>

Revoke_UpdateSubscription(t) ==
    /\ At(t, "revoke", "subscription")
    /\ IF Aborted
       THEN Error(lastid) /\ Goto(t, [pc |-> "except"])
       ELSE /\ Write(ExpireEmptySubscriptions(Store, {task[t].subscription_id},
                                              task[t].timestamp))
            /\ Goto(t, [pc |-> "commit"])
    /\ UNCHANGED <<farm, backend, concurrency, calls, syncs, now, before, notices, trail>>

Revoke_Commit(t) ==
    /\ At(t, "revoke", "commit")
    /\ CommitEffect
    /\ Finish(t, "True")
    /\ UNCHANGED <<farm, backend, concurrency, calls, syncs, now, before, notices, trail>>

Revoke_Except(t) ==
    /\ At(t, "revoke", "except")
    /\ RollbackEffect
    /\ Finish(t, "raised")
    /\ UNCHANGED <<farm, backend, concurrency, calls, syncs, now, before, notices, trail>>

\* revoke_all_active_links_for_user
RevokeAll_Call(t) ==
    /\ t \in Handlers /\ MayStart(t) /\ backend = "postgres"
    /\ \E user_id \in Users :
        /\ Goto(t, [op |-> "revoke_all", pc |-> "begin", user_id |-> user_id,
                    timestamp |-> now])
        /\ trail' = IF trail.stage = 1 /\ trail.user_id = user_id
                    THEN trail ELSE NoTrail
    /\ before' = [before EXCEPT ![t] = IF serial THEN <<Store>> ELSE << >>]
    /\ Started
    /\ UNCHANGED <<farm, backend, concurrency, syncs, now, tables, txn, saved, notices>>

RevokeAll_Begin(t) ==
    /\ At(t, "revoke_all", "begin")
    /\ BeginEffect
    /\ IF BeginRaises
       THEN Finish(t, "raised") /\ trail' = NoTrail
       ELSE Goto(t, [pc |-> "select"]) /\ UNCHANGED trail
    /\ UNCHANGED <<farm, backend, concurrency, calls, syncs, now, before, notices>>

RevokeAll_Select(t) ==
    /\ At(t, "revoke_all", "select")
    /\ IF Aborted
       THEN Error(lastid) /\ Goto(t, [pc |-> "except"])
       ELSE LET rows == ActiveLinksOf(Store, task[t].user_id, task[t].timestamp)
            IN /\ Read
               /\ IF rows = {}
                  THEN Goto(t, [pc |-> "rollback"])
                  ELSE Goto(t, [pc |-> "link", link_ids |-> rows])
    /\ UNCHANGED <<farm, backend, concurrency, calls, syncs, now, before, notices, trail>>

\* await self.conn.rollback(); return 0
RevokeAll_RollbackZero(t) ==
    /\ At(t, "revoke_all", "rollback")
    /\ RollbackEffect
    /\ Goto(t, [pc |-> "done", result |-> "ok", count |-> 0])
    /\ trail' = IF trail.stage = 1 THEN [trail EXCEPT !.stage = 2] ELSE NoTrail
    /\ UNCHANGED <<farm, backend, concurrency, calls, syncs, now, before, notices>>

RevokeAll_UpdateLinks(t) ==
    /\ At(t, "revoke_all", "link")
    /\ \E fault \in {FALSE, serial} :
       IF Aborted \/ fault
       THEN Error(lastid) /\ Goto(t, [pc |-> "except"])
       ELSE /\ Write(RevokeLinks(Store, task[t].link_ids, task[t].timestamp))
            /\ Goto(t, [pc |-> "pool"])
    /\ UNCHANGED <<farm, backend, concurrency, calls, syncs, now, before, notices, trail>>

RevokeAll_UpdatePool(t) ==
    /\ At(t, "revoke_all", "pool")
    /\ IF Aborted
       THEN Error(lastid) /\ Goto(t, [pc |-> "except"])
       ELSE /\ Write(FreePool(Store, task[t].link_ids))
            /\ Goto(t, [pc |-> "subscription"])
    /\ UNCHANGED <<farm, backend, concurrency, calls, syncs, now, before, notices, trail>>

RevokeAll_UpdateSubscriptions(t) ==
    /\ At(t, "revoke_all", "subscription")
    /\ IF Aborted
       THEN Error(lastid) /\ Goto(t, [pc |-> "except"])
       ELSE /\ Write(ExpireEmptySubscriptions(Store,
                        SubscriptionsOfUser(Store, task[t].user_id),
                        task[t].timestamp))
            /\ Goto(t, [pc |-> "commit"])
    /\ UNCHANGED <<farm, backend, concurrency, calls, syncs, now, before, notices, trail>>

\* await self.conn.commit(); return len(link_ids)
RevokeAll_Commit(t) ==
    /\ At(t, "revoke_all", "commit")
    /\ CommitEffect
    /\ Goto(t, [pc |-> "done", result |-> "ok",
                count |-> Cardinality(task[t].link_ids)])
    /\ trail' = IF trail.stage = 1 THEN [trail EXCEPT !.stage = 2] ELSE NoTrail
    /\ UNCHANGED <<farm, backend, concurrency, calls, syncs, now, before, notices>>

RevokeAll_Except(t) ==
    /\ At(t, "revoke_all", "except")
    /\ RollbackEffect
    /\ Finish(t, "raised")
    /\ trail' = NoTrail
    /\ UNCHANGED <<farm, backend, concurrency, calls, syncs, now, before, notices>>

\* ----------------------------------------------------------- expiry sweep
\* expire_due_and_get_notified_users, called by expiration_worker

\* UPDATE subscriptions SET status = 'expired'
\* WHERE status = 'active' AND expires_at <= ts
ExpireDueSubscriptions(s, ts) ==
    [s EXCEPT !.subscriptions = [x \in DOMAIN @ |->
        IF @[x].status = "active" /\ @[x].expires_at <= ts
        THEN [@[x] EXCEPT !.status = "expired"] ELSE @[x]]]

\* a faulty variant of the statement below: expires_at < ts
ExpireLinksBefore(s, ts) ==
    [s EXCEPT !.proxy_links = [l \in DOMAIN @ |->
        IF @[l].status = "active" /\ @[l].expires_at < ts
        THEN [@[l] EXCEPT !.status = "expired"] ELSE @[l]]]

\* UPDATE proxy_links SET status = 'expired'
\* WHERE status = 'active' AND expires_at <= ts
ExpireDueLinks(s, ts) ==
    [s EXCEPT !.proxy_links = [l \in DOMAIN @ |->
        IF @[l].status = "active" /\ @[l].expires_at <= ts
        THEN [@[l] EXCEPT !.status = "expired"] ELSE @[l]]]

\* UPDATE proxy_pool SET status = 'free', assigned_link_id = NULL
\* WHERE assigned_link_id IN (SELECT id FROM proxy_links WHERE status = 'expired')
ExpiredLinks(s) ==
    {l \in DOMAIN s.proxy_links : s.proxy_links[l].status = "expired"}

FreeExpired(s) == FreePool(s, ExpiredLinks(s))

\* SELECT DISTINCT u.tg_user_id FROM subscriptions s JOIN users u ...
\* WHERE s.status = 'expired' AND s.notified_expired = 0
Unnotified(s) ==
    {x \in DOMAIN s.subscriptions :
        s.subscriptions[x].status = "expired"
        /\ s.subscriptions[x].notified_expired = 0}

UsersOf(s, xs) == {s.subscriptions[x].user_id : x \in xs}

\* a faulty variant of the statement below: it marks nothing
MarkNothing(s) == s

\* UPDATE subscriptions SET notified_expired = 1
\* WHERE status = 'expired' AND notified_expired = 0
MarkNotified(s) ==
    [s EXCEPT !.subscriptions = [x \in DOMAIN @ |->
        IF x \in Unnotified(s) THEN [@[x] EXCEPT !.notified_expired = 1]
        ELSE @[x]]]

Expire_Call(t) ==
    /\ t = "expiration_worker" /\ MayStart(t)
    /\ Goto(t, [op |-> "expire", pc |-> "subscriptions", timestamp |-> now])
    /\ before' = [before EXCEPT ![t] = IF serial THEN <<Store>> ELSE << >>]
    /\ trail' = IF trail.stage = 4 THEN trail ELSE NoTrail
    /\ Started
    /\ UNCHANGED <<farm, backend, concurrency, syncs, now, tables, txn, saved, notices>>

Expire_UpdateSubscriptions(t) ==
    /\ At(t, "expire", "subscriptions")
    /\ IF Aborted
       THEN Error(lastid) /\ Finish(t, "raised")
       ELSE /\ Write(ExpireDueSubscriptions(Store, task[t].timestamp))
            /\ Goto(t, [pc |-> "links"])
    /\ UNCHANGED <<farm, backend, concurrency, calls, syncs, now, before, notices, trail>>

Expire_UpdateLinks(t) ==
    /\ At(t, "expire", "links")
    /\ IF Aborted
       THEN Error(lastid) /\ Finish(t, "raised")
       ELSE /\ Write(ExpireDueLinks(Store, task[t].timestamp))
            /\ Goto(t, [pc |-> "pool"])
    /\ UNCHANGED <<farm, backend, concurrency, calls, syncs, now, before, notices, trail>>

Expire_UpdatePool(t) ==
    /\ At(t, "expire", "pool")
    /\ IF Aborted
       THEN Error(lastid) /\ Finish(t, "raised")
       ELSE /\ Write(FreeExpired(Store))
            /\ Goto(t, [pc |-> "select"])
    /\ UNCHANGED <<farm, backend, concurrency, calls, syncs, now, before, notices, trail>>

Expire_SelectUnnotified(t) ==
    /\ At(t, "expire", "select")
    /\ IF Aborted
       THEN Error(lastid) /\ Finish(t, "raised")
       ELSE /\ Read
            /\ Goto(t, [pc |-> "notified", leases |-> Unnotified(Store),
                        rows |-> UsersOf(Store, Unnotified(Store))])
    /\ UNCHANGED <<farm, backend, concurrency, calls, syncs, now, before, notices, trail>>

Expire_MarkNotified(t) ==
    /\ At(t, "expire", "notified")
    /\ IF Aborted
       THEN Error(lastid) /\ Finish(t, "raised")
       ELSE /\ Write(MarkNotified(Store))
            /\ Goto(t, [pc |-> "commit"])
    /\ UNCHANGED <<farm, backend, concurrency, calls, syncs, now, before, notices, trail>>

\* await self.conn.commit(); return the users selected; `notices` counts,
\* per lease, the sweeps that returned its subscriber for it (up to 2)
Expire_Commit(t) ==
    /\ At(t, "expire", "commit")
    /\ CommitEffect
    /\ Finish(t, "ok")
    /\ notices' = [x \in (DOMAIN notices) \cup task[t].leases |->
                      IF x \in task[t].leases
                      THEN (IF x \in DOMAIN notices THEN 2 ELSE 1)
                      ELSE notices[x]]
    /\ trail' = IF ~serial THEN NoTrail
                ELSE IF trail.stage = 4
                THEN [trail EXCEPT !.stage = 5,
                                   !.count = Cardinality(task[t].rows)]
                ELSE [NoTrail EXCEPT !.stage = 4,
                                     !.first = Cardinality(task[t].rows)]
    /\ UNCHANGED <<farm, backend, concurrency, calls, syncs, now, before>>

\* ------------------------------------------------------ pool reconciliation
\* sync_proxy_pool(entries), called by main.run and by proxy_pool_sync_worker

\* a declared description: ports D, all with credential c, in port order
Description(D, c) ==
    LET ports == SortedSeq(D)
    IN [k \in 1..Len(ports) |->
           [port |-> ports[k], username |-> c, password |-> c]]

\* INSERT INTO proxy_pool (...) VALUES (..., 'free', ...)
\* ON CONFLICT(port) DO UPDATE SET username, password, updated_at
Upsert(s, item) ==
    IF item.port \in DOMAIN s.proxy_pool
    THEN [s EXCEPT !.proxy_pool[item.port].username = item.username,
                   !.proxy_pool[item.port].password = item.password]
    ELSE [s EXCEPT !.proxy_pool = Put(@, item.port,
                       [id |-> NextId(s, "proxy_pool"),
                        username |-> item.username, password |-> item.password,
                        status |-> "free", assigned_link_id |-> NULL]),
                   !.lastid = UsedId(s, "proxy_pool")]

\* DELETE FROM proxy_pool WHERE status = 'free' AND NOT (port = ANY(ports));
\* with no ports: DELETE FROM proxy_pool WHERE status = 'free'
DeleteUndeclared(s, ports) ==
    [s EXCEPT !.proxy_pool =
        Drop(@, {p \in DOMAIN @ : @[p].status = "free" /\ p \notin ports})]

RECURSIVE UpsertAll(_, _)
\* for item in entries: the upsert of each
UpsertAll(s, entries) ==
    IF entries = << >> THEN s
    ELSE UpsertAll(Upsert(s, Head(entries)), Tail(entries))

\* store s after db.sync_proxy_pool(entries) has run alone, for db the
\* store class of back end "sqlite" (Database) or "postgres"
\* (PostgresDatabase)
sync_proxy_pool(db, s, entries) ==
    IF db = "sqlite"
    THEN IF entries = << >> THEN s ELSE UpsertAll(s, entries)
    ELSE DeleteUndeclared(UpsertAll(s, entries),
                          {entries[k].port : k \in 1..Len(entries)})

\* the worker passes only a non-empty description; main.run passes whatever
\* the pool file holds, before any task is started
\* (the frame keeps the description in proxy_rows)
Sync_Call(t) ==
    /\ t = "proxy_pool_sync_worker" /\ MayStart(t) /\ syncs < MaxSyncs
    /\ \E D \in SUBSET Ports, c \in Creds :
        /\ D = {} => (AllIdle /\ txn = "IDLE" /\ c = 1)
        /\ lastid.proxy_pool + Cardinality(D \ DOMAIN proxy_pool) <= MaxPoolRows
        /\ Goto(t, [op |-> "sync", entries |-> Description(D, c),
                    pc |-> IF D # {} THEN "upsert"
                           ELSE IF backend = "sqlite" THEN "done" ELSE "delete",
                    rows |-> D, result |-> "ok",
                    proxy_rows |-> Description(D, c)])
    /\ before' = [before EXCEPT ![t] = IF serial THEN <<Store>> ELSE << >>]
    /\ trail' = NoTrail
    /\ Started
    /\ syncs' = syncs + 1
    /\ UNCHANGED <<farm, backend, concurrency, now, tables, txn, saved, notices>>

Sync_Upsert(t) ==
    /\ At(t, "sync", "upsert")
    /\ IF Aborted
       THEN Error(lastid) /\ Finish(t, "raised")
       ELSE /\ Write(Upsert(Store, Head(task[t].entries)))
            /\ Goto(t, [entries |-> Tail(task[t].entries),
                        pc |-> IF Len(task[t].entries) > 1 THEN "upsert"
                               ELSE IF backend = "sqlite" THEN "commit"
                               ELSE "delete"])
    /\ UNCHANGED <<farm, backend, concurrency, calls, syncs, now, before, notices, trail>>

Sync_Delete(t) ==
    /\ At(t, "sync", "delete")
    /\ IF Aborted
       THEN Error(lastid) /\ Finish(t, "raised")
       ELSE /\ Write(DeleteUndeclared(Store, task[t].rows))
            /\ Goto(t, [pc |-> "commit"])
    /\ UNCHANGED <<farm, backend, concurrency, calls, syncs, now, before, notices, trail>>

Sync_Commit(t) ==
    /\ At(t, "sync", "commit")
    /\ CommitEffect
    /\ Finish(t, "ok")
    /\ UNCHANGED <<farm, backend, concurrency, calls, syncs, now, before, notices, trail>>

\* ------------------------------------------------------------------ time
Tick ==
    /\ now < MaxTime /\ AllIdle
    /\ now' = now + 1
    /\ trail' = NoTrail
    /\ UNCHANGED <<farm, backend, concurrency, calls, syncs, tables, txn, saved, task, before, notices>>

\* the caller has taken the call's result
Return(t) ==
    /\ task[t].pc = "done"
    /\ task' = [task EXCEPT ![t] = Idle]
    /\ before' = [before EXCEPT ![t] = << >>]
    /\ UNCHANGED <<farm, backend, concurrency, calls, syncs, now, tables, txn, saved, notices, trail>>

\* --------------------------------------------------- the relay engine's pool
\* Text is a sequence of code points, a byte string a sequence of bytes.
\* The bytes and code points a run uses: five ASCII ones (which cover the
\* protocol's version, method, command and address type numbers) and 0xFF,
\* which no UTF-8 text contains.
Bytes == {1, 2, 3, 4, 5, 255}

\* f"u{port}": the letter (code point 3 here) and the port's number
Username(port) == <<3, port>>

\* secrets.token_urlsafe(8): some text that is not empty
Tokens == {<<1>>, <<2>>}

\* What JSON the pool file may hold, entry by entry: dict tells whether the
\* entry is an object; port is its "port" if that is a positive integer and
\* 0 otherwise; username and password are its "username" and "password" if
\* they are text and << >> otherwise.
Items ==
    [dict : BOOLEAN, port : 0..(MaxPort + 1), username : {<< >>, <<3>>},
     password : Tokens \cup {<< >>}]

\* the file: absent, text that is not JSON ("garbage"), JSON that is not a
\* list ("other"), or a list of entries
Files ==
    {[kind |-> kind, items |-> << >>] : kind \in {"absent", "garbage", "other"}}
    \cup {[kind |-> "list", items |-> items] :
            items \in UNION {[1..n -> Items] : n \in 0..MaxEntries}}

build_pool(start, end, tokens) ==
    [k \in 1..(end - start + 1) |->
        [dict |-> TRUE, port |-> start + k - 1,
         username |-> Username(start + k - 1), password |-> tokens[start + k - 1]]]

\* data is what json.loads gave for the file
is_pool_compatible(data, start, end) ==
    IF data.kind # "list" THEN FALSE
    ELSE LET expected_ports == start..end
             seen_ports == {data.items[k].port : k \in 1..Len(data.items)}
         IN IF Len(data.items) # Cardinality(expected_ports) THEN FALSE
            ELSE /\ \A k \in 1..Len(data.items) :
                       /\ data.items[k].dict
                       /\ data.items[k].port \in expected_ports
                       /\ data.items[k].username # << >>
                       /\ data.items[k].password # << >>
                 /\ seen_ports = expected_ports

\* load_or_create_pool(path, start, end), start and end as main read them
\* from SOCKS_PORT_RANGE.  loads keeps, call by call, what the file held
\* (was) and what the call gave: the list it returned, or raised.
load_or_create_pool ==
    /\ Len(loads.returned) < MaxLoads
    /\ IF pool_file.kind = "garbage"
       THEN /\ loads' = [loads EXCEPT
                            !.was = Append(@, pool_file),
                            !.returned = Append(@, [raised |-> TRUE, items |-> << >>])]
            /\ UNCHANGED pool_file
       ELSE IF /\ pool_file.kind # "absent"
               /\ is_pool_compatible(pool_file, loads.start, loads.end)
       THEN /\ loads' = [loads EXCEPT
                            !.was = Append(@, pool_file),
                            !.returned = Append(@, [raised |-> FALSE,
                                                    items |-> pool_file.items])]
            /\ UNCHANGED pool_file
       ELSE \E tokens \in [loads.start..loads.end -> Tokens] :
               LET data == build_pool(loads.start, loads.end, tokens)
               IN /\ pool_file' = [kind |-> "list", items |-> data]
                  /\ loads' = [loads EXCEPT
                                  !.was = Append(@, pool_file),
                                  !.returned = Append(@, [raised |-> FALSE,
                                                          items |-> data])]
    /\ UNCHANGED <<bot, expected_username, expected_password, conn, sock, pipe>>

\* ------------------------------------------- the relay engine's connection
\* byte strings of n bytes
Frames(n) == [1..n -> Bytes]

\* raw.decode("utf-8", errors="ignore") on these bytes: an ASCII byte is its
\* code point, 0xFF is left out
decode_utf8_ignore(raw) == SelectSeq(raw, LAMBDA b : b < 128)

\* the replies to a request, as the handler writes them
SocksReply(rep) == <<5, rep, 0, 1, 0, 0, 0, 0, 0, 0>>

\* a server that takes whatever the client offers
AnyMethodOffered(methods) == methods # << >>

\* 0x02 in methods
MethodOffered(methods) == \E k \in 1..Len(methods) : methods[k] = 2

CredentialsMatch(username_raw, password_raw) ==
    /\ decode_utf8_ignore(username_raw) = expected_username
    /\ decode_utf8_ignore(password_raw) = expected_password

\* a server that takes every command for CONNECT
AnyCommand(ver, cmd) == ver = 5

ConnectCommand(ver, cmd) == ver = 5 /\ cmd = 1

\* handle_client has just been called for an accepted connection; step is
\* the last await that returned, nread counts the bytes its reads have
\* returned, eof_at is the read that returned None, connects counts the
\* calls of asyncio.open_connection
NewConnection ==
    [pc |-> "greeting", step |-> "", nread |-> 0, eof_at |-> "", connects |-> 0,
     ver |-> -1, nmethods |-> -1, methods |-> << >>,
     auth_ver |-> -1, ulen |-> -1, username_raw |-> << >>,
     plen |-> -1, password_raw |-> << >>,
     cmd |-> -1, atyp |-> -1, domain_len |-> -1, host |-> << >>, port |-> -1]

\* A stream: the transport's state, the bytes written to it, its write
\* buffer (0: empty, 1: bytes the socket has not taken yet, 2: more of them
\* than the high-water mark), what has arrived and has not been read,
\* whether the reader was fed end-of-stream or an exception, and the chunks
\* that arrived during the relay.
Socket(state) ==
    [state |-> state, sent |-> << >>, backlog |-> 0, inbox |-> << >>,
     eof |-> FALSE, exc |-> FALSE, arrived |-> 0]

\* writer.write(data); await writer.drain() of the handshake: the few bytes
\* of a reply are taken by the socket at once
Written(s, name, data) == [s EXCEPT ![name].sent = @ \o data]

\* writer.close()
Closed(s, name) ==
    [s EXCEPT ![name].state = IF @ = "open" THEN "closing" ELSE @]

\* the client's stream and the upstream's; pipe[name] is the pipe_stream
\* task that reads from stream name and writes to the other one
Streams == {"client", "target"}
Other(name) == IF name = "client" THEN "target" ELSE "client"

\* what a connection leaves alone
listener == <<bot, pool_file, loads, expected_username, expected_password>>

\* a server that answers a stream that ended
TruncatedWithReply ==
    /\ conn' = [conn EXCEPT !.pc = "done", !.step = conn.pc, !.eof_at = conn.pc]
    /\ sock' = Closed(Written(sock, "client", <<5, 255>>), "client")

\* the read gave None: close and return
Truncated ==
    /\ conn' = [conn EXCEPT !.pc = "done", !.step = conn.pc, !.eof_at = conn.pc]
    /\ sock' = Closed(sock, "client")

\* close and return from frame c, after a reply if there is one
Refused(c, reply) ==
    /\ conn' = [c EXCEPT !.pc = "done", !.step = conn.pc]
    /\ sock' = Closed(Written(sock, "client", reply), "client")

\* go on from frame c to the next read, after a reply if there is one
Proceed(c, reply, pc) ==
    /\ conn' = [c EXCEPT !.pc = pc, !.step = conn.pc]
    /\ sock' = Written(sock, "client", reply)

Read_Greeting ==
    /\ conn.pc = "greeting"
    /\ \/ Truncated
       \/ \E ver \in Bytes, nmethods \in 0..MaxLen :
            LET c == [conn EXCEPT !.ver = ver, !.nmethods = nmethods,
                                  !.nread = @ + 2]
            IN IF ver # 5 THEN Refused(c, << >>)
               ELSE Proceed(c, << >>, "methods")
    /\ UNCHANGED <<listener, pipe>>

Read_Methods ==
    /\ conn.pc = "methods"
    /\ \/ Truncated
       \/ \E methods \in Frames(conn.nmethods) :
            LET c == [conn EXCEPT !.methods = methods, !.nread = @ + Len(methods)]
            IN IF ~MethodOffered(methods) THEN Refused(c, <<5, 255>>)
               ELSE Proceed(c, <<5, 2>>, "auth_head")
    /\ UNCHANGED <<listener, pipe>>

\* a server that does not look at the version of the subnegotiation
Read_AuthHeadAnyVersion ==
    /\ conn.pc = "auth_head"
    /\ \/ Truncated
       \/ \E auth_ver \in Bytes, ulen \in 0..MaxLen :
            Proceed([conn EXCEPT !.auth_ver = auth_ver, !.ulen = ulen,
                                 !.nread = @ + 2],
                    << >>, "username")
    /\ UNCHANGED <<listener, pipe>>

Read_AuthHead ==
    /\ conn.pc = "auth_head"
    /\ \/ Truncated
       \/ \E auth_ver \in Bytes, ulen \in 0..MaxLen :
            LET c == [conn EXCEPT !.auth_ver = auth_ver, !.ulen = ulen,
                                  !.nread = @ + 2]
            IN IF auth_ver # 1 THEN Refused(c, <<1, 1>>)
               ELSE Proceed(c, << >>, "username")
    /\ UNCHANGED <<listener, pipe>>

Read_Username ==
    /\ conn.pc = "username"
    /\ \/ Truncated
       \/ \E username_raw \in Frames(conn.ulen) :
            Proceed([conn EXCEPT !.username_raw = username_raw,
                                 !.nread = @ + Len(username_raw)],
                    << >>, "password_len")
    /\ UNCHANGED <<listener, pipe>>

Read_PasswordLen ==
    /\ conn.pc = "password_len"
    /\ \/ Truncated
       \/ \E plen \in 0..MaxLen :
            Proceed([conn EXCEPT !.plen = plen, !.nread = @ + 1], << >>, "password")
    /\ UNCHANGED <<listener, pipe>>

\* a server that goes on to the request after refusing the credentials
Read_PasswordLenient ==
    /\ conn.pc = "password"
    /\ \/ Truncated
       \/ \E password_raw \in Frames(conn.plen) :
            LET c == [conn EXCEPT !.password_raw = password_raw,
                                  !.nread = @ + Len(password_raw)]
            IN IF ~CredentialsMatch(conn.username_raw, password_raw)
               THEN Proceed(c, <<1, 1>>, "request")
               ELSE Proceed(c, <<1, 0>>, "request")
    /\ UNCHANGED <<listener, pipe>>

Read_Password ==
    /\ conn.pc = "password"
    /\ \/ Truncated
       \/ \E password_raw \in Frames(conn.plen) :
            LET c == [conn EXCEPT !.password_raw = password_raw,
                                  !.nread = @ + Len(password_raw)]
            IN IF ~CredentialsMatch(conn.username_raw, password_raw)
               THEN Refused(c, <<1, 1>>)
               ELSE Proceed(c, <<1, 0>>, "request")
    /\ UNCHANGED <<listener, pipe>>

\* a server that reads four address bytes for an address type it does not
\* know
Read_RequestAnyType ==
    /\ conn.pc = "request"
    /\ \/ Truncated
       \/ \E ver \in Bytes, cmd \in Bytes, rsv \in Bytes, atyp \in Bytes :
            LET c == [conn EXCEPT !.ver = ver, !.cmd = cmd, !.atyp = atyp,
                                  !.nread = @ + 4]
            IN IF ~ConnectCommand(ver, cmd) THEN Refused(c, SocksReply(7))
               ELSE IF atyp = 3 THEN Proceed(c, << >>, "domain_len")
               ELSE IF atyp = 4 THEN Proceed(c, << >>, "ipv6")
               ELSE Proceed(c, << >>, "ipv4")
    /\ UNCHANGED <<listener, pipe>>

Read_Request ==
    /\ conn.pc = "request"
    /\ \/ Truncated
       \/ \E ver \in Bytes, cmd \in Bytes, rsv \in Bytes, atyp \in Bytes :
            LET c == [conn EXCEPT !.ver = ver, !.cmd = cmd, !.atyp = atyp,
                                  !.nread = @ + 4]
            IN IF ~ConnectCommand(ver, cmd) THEN Refused(c, SocksReply(7))
               ELSE IF atyp = 1 THEN Proceed(c, << >>, "ipv4")
               ELSE IF atyp = 3 THEN Proceed(c, << >>, "domain_len")
               ELSE IF atyp = 4 THEN Proceed(c, << >>, "ipv6")
               ELSE Refused(c, SocksReply(8))
    /\ UNCHANGED <<listener, pipe>>

\* The 4 bytes of an IPv4 address or the 16 of an IPv6 address, which the
\* handler only formats as text for open_connection: the runs use addresses
\* of one repeated byte, and host keeps the bytes.
Read_Address ==
    /\ conn.pc \in {"ipv4", "ipv6"}
    /\ \/ Truncated
       \/ \E b \in Bytes :
            LET addr == [k \in 1..(IF conn.pc = "ipv4" THEN 4 ELSE 16) |-> b]
            IN Proceed([conn EXCEPT !.host = addr, !.nread = @ + Len(addr)],
                       << >>, "port")
    /\ UNCHANGED <<listener, pipe>>

Read_DomainLen ==
    /\ conn.pc = "domain_len"
    /\ \/ Truncated
       \/ \E domain_len \in 0..MaxDomain :
            Proceed([conn EXCEPT !.domain_len = domain_len, !.nread = @ + 1],
                    << >>, "domain")
    /\ UNCHANGED <<listener, pipe>>

\* domain.decode("idna") raises UnicodeError on a byte that is not ASCII
Read_Domain ==
    /\ conn.pc = "domain"
    /\ \/ Truncated
       \/ \E domain \in Frames(conn.domain_len) :
            LET c == [conn EXCEPT !.nread = @ + Len(domain)]
            IN IF \E k \in 1..Len(domain) : domain[k] >= 128
               THEN Refused(c, SocksReply(4))
               ELSE Proceed([c EXCEPT !.host = domain], << >>, "port")
    /\ UNCHANGED <<listener, pipe>>

\* int.from_bytes(port_raw, "big"), of two bytes that are alike in the runs
Read_Port ==
    /\ conn.pc = "port"
    /\ \/ Truncated
       \/ \E b \in Bytes :
            Proceed([conn EXCEPT !.port = b * 256 + b, !.nread = @ + 2],
                    << >>, "connect")
    /\ UNCHANGED <<listener, pipe>>

\* a server that starts the relay without the success reply
Open_ConnectionSilent ==
    /\ conn.pc = "connect"
    /\ \/ /\ Refused([conn EXCEPT !.connects = @ + 1], SocksReply(5))
          /\ UNCHANGED pipe
       \/ /\ conn' = [NewConnection EXCEPT !.pc = "relay", !.step = "connect",
                                           !.connects = 1]
          /\ sock' = [sock EXCEPT !.target = Socket("open")]
          /\ pipe' = [name \in Streams |-> "read"]
    /\ UNCHANGED listener

\* asyncio.open_connection(host, port), then the reply; on success the two
\* pipe_stream tasks are created by asyncio.gather.  The relay uses none of
\* the handshake's locals: from here the frame keeps only where
\* handle_client waits.
Open_Connection ==
    /\ conn.pc = "connect"
    /\ \/ /\ Refused([conn EXCEPT !.connects = @ + 1], SocksReply(5))
          /\ UNCHANGED pipe
       \/ /\ conn' = [NewConnection EXCEPT !.pc = "relay", !.step = "connect",
                                           !.connects = 1]
          /\ sock' = [Written(sock, "client", SocksReply(0))
                         EXCEPT !.target = Socket("open")]
          /\ pipe' = [name \in Streams |-> "read"]
    /\ UNCHANGED listener

\* ------------------------------------------------ the relay engine's relay
\* pipe_stream's finally, for the task that reads from stream name:
\* writer.close(), then await writer.wait_closed()
Finally(name) ==
    /\ sock' = Closed(sock, Other(name))
    /\ pipe' = [pipe EXCEPT ![name] = "wait_closed"]

\* chunk = await reader.read(65536), and what follows up to the next await:
\* the read raises the reader's exception, or returns what has arrived
\* (written to the other stream at once), or b"" at end-of-stream, or waits.
\* transport.write drops the chunk once the connection is lost or close()
\* found the buffer empty; otherwise the socket takes the bytes or they
\* wait in the buffer.
Pipe_Read(name) ==
    /\ pipe[name] = "read"
    /\ IF sock[name].exc THEN Finally(name)
       ELSE IF sock[name].inbox # << >>
       THEN LET chunk == Head(sock[name].inbox)
                taken == [sock EXCEPT ![name].inbox = Tail(@)]
                writer == sock[Other(name)]
            IN /\ IF \/ writer.state = "open"
                     \/ writer.state = "closing" /\ writer.backlog > 0
                  THEN \E level \in writer.backlog..2 :
                          sock' = [Written(taken, Other(name), chunk)
                                      EXCEPT ![Other(name)].backlog = level]
                  ELSE sock' = taken
               /\ pipe' = [pipe EXCEPT ![name] = "drain"]
       ELSE /\ sock[name].eof
            /\ Finally(name)
    /\ UNCHANGED <<listener, conn>>

\* await writer.drain(): raises once the connection is lost, waits while
\* the buffer is above the high-water mark
Pipe_Drain(name) ==
    /\ pipe[name] = "drain"
    /\ IF sock[Other(name)].exc \/ sock[Other(name)].state = "closed"
       THEN Finally(name)
       ELSE /\ sock[Other(name)].backlog < 2
            /\ pipe' = [pipe EXCEPT ![name] = "read"]
            /\ UNCHANGED sock
    /\ UNCHANGED <<listener, conn>>

\* await writer.wait_closed() returns (or raises, suppressed) when the
\* transport has lost its connection
Pipe_WaitClosed(name) ==
    /\ pipe[name] = "wait_closed"
    /\ sock[Other(name)].state = "closed"
    /\ pipe' = [pipe EXCEPT ![name] = "done"]
    /\ UNCHANGED <<listener, conn, sock>>

\* asyncio.gather returns and handle_client with it
Gather_Done ==
    /\ conn.pc = "relay"
    /\ \A name \in Streams : pipe[name] = "done"
    /\ conn' = [conn EXCEPT !.pc = "done", !.step = "relay"]
    /\ UNCHANGED <<listener, sock, pipe>>

\* The event loop ends a transport that was closed once its write buffer is
\* empty: the socket is closed and the stream's reader is fed end-of-stream.
Connection_Lost(name) ==
    /\ sock[name].state = "closing"
    /\ sock[name].backlog = 0
    /\ sock' = [sock EXCEPT ![name].state = "closed", ![name].eof = TRUE]
    /\ UNCHANGED <<listener, conn, pipe>>

\* What the peers do during the relay.  A peer sends a chunk (one of two
\* in the runs):
Peer_Sends(name) ==
    /\ conn.pc = "relay"
    /\ sock[name].state = "open" /\ ~sock[name].eof /\ ~sock[name].exc
    /\ sock[name].arrived < MaxChunks
    /\ \E chunk \in {<<1>>, <<2>>} :
          sock' = [sock EXCEPT ![name].inbox = Append(@, chunk),
                               ![name].arrived = @ + 1]
    /\ UNCHANGED <<listener, conn, pipe>>

\* a peer ends its side of the stream
Peer_Closes(name) ==
    /\ conn.pc = "relay"
    /\ sock[name].state = "open" /\ ~sock[name].eof /\ ~sock[name].exc
    /\ sock' = [sock EXCEPT ![name].eof = TRUE]
    /\ UNCHANGED <<listener, conn, pipe>>

\* the connection fails: the transport is ended with the error, which the
\* reader keeps for its next read
Peer_Resets(name) ==
    /\ conn.pc = "relay"
    /\ sock[name].state \in {"open", "closing"}
    /\ sock' = [sock EXCEPT ![name].state = "closed", ![name].exc = TRUE,
                            ![name].backlog = 0]
    /\ UNCHANGED <<listener, conn, pipe>>

\* a peer takes bytes that waited in the write buffer
Peer_Accepts(name) ==
    /\ sock[name].state \in {"open", "closing"}
    /\ sock[name].backlog > 0
    /\ \E level \in 0..(sock[name].backlog - 1) :
          sock' = [sock EXCEPT ![name].backlog = level]
    /\ UNCHANGED <<listener, conn, pipe>>

\* the relay engine before main has run: no pool file, no connection served
FarmIdle ==
    /\ pool_file = [kind |-> "absent", items |-> << >>]
    /\ loads = [start |-> 1, end |-> MaxPort, was |-> << >>, returned |-> << >>]
    /\ expected_username = Username(1)
    /\ expected_password = <<1>>
    /\ conn = NewConnection
    /\ sock = [client |-> Socket("open"), target |-> Socket("none")]
    /\ pipe = [name \in Streams |-> "idle"]

\* -------------------------------------------------------- specifications
\* The store when the tasks start: main.run has connected and has applied
\* the pool file (every port of the range, first credentials), and handlers
\* have created payments (create_payment) that are still pending.  Users and
\* payments are interchangeable, so the first payment is user 1's and the
\* payments come in the order of their device counts.
StartPool ==
    [p \in Ports |-> [id |-> p, username |-> 1, password |-> 1,
                      status |-> "free", assigned_link_id |-> NULL]]

StartPayments ==
    {pays \in [1..MaxPayments -> [user_id : Users, devices_count : DeviceCounts,
                                  status : {"pending"}]] :
        /\ pays[1].user_id = 1
        /\ \A k \in 1..(MaxPayments - 1) :
               pays[k].devices_count <= pays[k + 1].devices_count}

Init ==
    /\ backend \in {"postgres", "sqlite"}
    /\ concurrency \in 1..MaxConcurrent
    /\ now = 0
    /\ proxy_pool = StartPool
    /\ payments \in StartPayments
    /\ subscriptions = << >>
    /\ proxy_links = << >>
    /\ lastid = [proxy_pool |-> MaxPort, payments |-> MaxPayments,
                 subscriptions |-> 0, proxy_links |-> 0]
    /\ txn = "IDLE"
    /\ saved = << >>
    /\ task = [t \in Tasks |-> Idle]
    /\ calls = 0
    /\ syncs = 0
    /\ before = [t \in Tasks |-> << >>]
    /\ notices = << >>
    /\ trail = NoTrail
    /\ FarmIdle

ActivateSteps(t) ==
    \/ Activate_Call(t) \/ Activate_Begin(t) \/ Activate_UpdatePayment(t)
    \/ Activate_SelectFree(t) \/ Activate_RollbackNone(t)
    \/ Activate_InsertSubscription(t) \/ Activate_InsertLink(t)
    \/ Activate_AssignPool(t) \/ Activate_Commit(t) \/ Activate_Except(t)

CancelSteps(t) == Cancel_Call(t) \/ Cancel_Update(t) \/ Cancel_Commit(t)

CountFreeSteps(t) == CountFree_Call(t) \/ CountFree_Select(t)

RevokeSteps(t) ==
    \/ Revoke_Call(t) \/ Revoke_Begin(t) \/ Revoke_Select(t)
    \/ Revoke_RollbackFalse(t) \/ Revoke_UpdateLink(t) \/ Revoke_UpdatePool(t)
    \/ Revoke_UpdateSubscription(t) \/ Revoke_Commit(t) \/ Revoke_Except(t)

RevokeAllSteps(t) ==
    \/ RevokeAll_Call(t) \/ RevokeAll_Begin(t) \/ RevokeAll_Select(t)
    \/ RevokeAll_RollbackZero(t) \/ RevokeAll_UpdateLinks(t)
    \/ RevokeAll_UpdatePool(t) \/ RevokeAll_UpdateSubscriptions(t)
    \/ RevokeAll_Commit(t) \/ RevokeAll_Except(t)

ExpireSteps(t) ==
    \/ Expire_Call(t) \/ Expire_UpdateSubscriptions(t) \/ Expire_UpdateLinks(t)
    \/ Expire_UpdatePool(t) \/ Expire_SelectUnnotified(t)
    \/ Expire_MarkNotified(t) \/ Expire_Commit(t)

SyncSteps(t) == Sync_Call(t) \/ Sync_Upsert(t) \/ Sync_Delete(t) \/ Sync_Commit(t)

InitSerial == Init /\ concurrency = 1

InitTasks == Init /\ concurrency = MaxConcurrent

\* purchases, revoke-all, the free count and the sweep, one call at a time
NextSerial ==
    \/ \E t \in Tasks :
        \/ ActivateSteps(t) \/ RevokeAllSteps(t) \/ CountFreeSteps(t)
        \/ ExpireSteps(t) \/ Return(t)
    \/ Tick

SpecSerial == InitSerial /\ [][NextSerial]_vars

\* purchases, revoke-all, the sweep and pool reconciliation, one
\* call at a time
NextSync ==
    \/ \E t \in Tasks :
        \/ ActivateSteps(t) \/ RevokeAllSteps(t) \/ ExpireSteps(t)
        \/ SyncSteps(t) \/ Return(t)
    \/ Tick

SpecSync == InitSerial /\ [][NextSync]_vars

\* purchases, revocation of one slot or of all and the sweep, one call at a
\* time
NextRevoke ==
    \/ \E t \in Tasks :
        \/ ActivateSteps(t) \/ RevokeSteps(t) \/ RevokeAllSteps(t)
        \/ ExpireSteps(t) \/ Return(t)
    \/ Tick

SpecRevoke == InitSerial /\ [][NextRevoke]_vars

\* purchases and the expiration worker, switching at every await
Next ==
    \/ \E t \in Tasks : ActivateSteps(t) \/ ExpireSteps(t) \/ Return(t)
    \/ Tick

Spec == InitTasks /\ [][Next]_vars

RECURSIVE BindRows(_, _, _, _, _, _)
\* the loop of the allocation over the selected rows, from row k on
BindRows(s, subscription_id, user_id, proxy_rows, k, expires_at) ==
    IF k > Len(proxy_rows) THEN s
    ELSE BindRows(AssignPool(InsertLink(s, subscription_id, user_id, k,
                                        proxy_rows[k], expires_at),
                             proxy_rows[k].id, NextId(s, "proxy_links")),
                  subscription_id, user_id, proxy_rows, k + 1, expires_at)

\* store s after an allocation for payment_id has run to its commit
Purchased(s, payment_id, expires_at) ==
    LET user_id == s.payments[payment_id].user_id
        proxy_rows == SelectFree(s.proxy_pool, s.payments[payment_id].devices_count)
        paid == MarkPaid(s, payment_id)
    IN BindRows(InsertSubscription(paid, user_id, payment_id, expires_at),
                NextId(paid, "subscriptions"), user_id, proxy_rows, 1, expires_at)

\* The store is kept between runs of the bot: here the tasks start on the
\* PostgreSQL store of an earlier run in which the first payment was bought
\* (its lease runs until time 1), and switch at every await.
InitRace ==
    /\ backend = "postgres"
    /\ concurrency = MaxConcurrent
    /\ now = 0
    /\ \E pays \in StartPayments :
          LET s == Purchased([proxy_pool |-> StartPool, payments |-> pays,
                              subscriptions |-> << >>, proxy_links |-> << >>,
                              lastid |-> [proxy_pool |-> MaxPort,
                                          payments |-> MaxPayments,
                                          subscriptions |-> 0,
                                          proxy_links |-> 0]], 1, 1)
          IN /\ proxy_pool = s.proxy_pool
             /\ payments = s.payments
             /\ subscriptions = s.subscriptions
             /\ proxy_links = s.proxy_links
             /\ lastid = s.lastid
    /\ txn = "IDLE"
    /\ saved = << >>
    /\ task = [t \in Tasks |-> Idle]
    /\ calls = 0
    /\ syncs = 0
    /\ before = [t \in Tasks |-> << >>]
    /\ notices = << >>
    /\ trail = NoTrail
    /\ FarmIdle

NextRace ==
    \/ \E t \in Tasks :
        \/ ActivateSteps(t) \/ RevokeSteps(t) \/ ExpireSteps(t) \/ Return(t)
    \/ Tick

SpecRace == InitRace /\ [][NextRace]_vars

\* ------------------------------------------ the relay engine's specifications
\* the bot's store as main.run leaves it, no task running
BotIdle ==
    /\ backend = "postgres"
    /\ concurrency = 1
    /\ now = 0
    /\ proxy_pool = StartPool
    /\ payments = [k \in 1..MaxPayments |->
                      [user_id |-> 1, devices_count |-> 1, status |-> "pending"]]
    /\ subscriptions = << >>
    /\ proxy_links = << >>
    /\ lastid = [proxy_pool |-> MaxPort, payments |-> MaxPayments,
                 subscriptions |-> 0, proxy_links |-> 0]
    /\ txn = "IDLE"
    /\ saved = << >>
    /\ task = [t \in Tasks |-> Idle]
    /\ calls = 0
    /\ syncs = 0
    /\ before = [t \in Tasks |-> << >>]
    /\ notices = << >>
    /\ trail = NoTrail

\* main before its call of load_or_create_pool, for every file it may find
\* and every range it may be given
InitPool ==
    /\ BotIdle
    /\ pool_file \in Files
    /\ \E start \in Ports, end \in Ports :
          /\ start <= end
          /\ loads = [start |-> start, end |-> end, was |-> << >>, returned |-> << >>]
    /\ expected_username = Username(1)
    /\ expected_password = <<1>>
    /\ conn = NewConnection
    /\ sock = [client |-> Socket("open"), target |-> Socket("none")]
    /\ pipe = [name \in Streams |-> "idle"]

NextPool == load_or_create_pool

SpecPool == InitPool /\ [][NextPool]_vars

\* main has created the pool file and has started one listener per entry
\* with the entry's credential; handle_client is called for a connection
\* that one of the listeners accepted
InitSocks ==
    /\ BotIdle
    /\ \E tokens \in [Ports -> Tokens], k \in Ports :
          LET data == build_pool(1, MaxPort, tokens)
          IN /\ pool_file = [kind |-> "list", items |-> data]
             /\ loads = [start |-> 1, end |-> MaxPort,
                         was |-> <<[kind |-> "absent", items |-> << >>]>>,
                         returned |-> <<[raised |-> FALSE, items |-> data]>>]
             /\ expected_username = data[k].username
             /\ expected_password = data[k].password
    /\ conn = NewConnection
    /\ sock = [client |-> Socket("open"), target |-> Socket("none")]
    /\ pipe = [name \in Streams |-> "idle"]

\* the relay of a connection: its two tasks, the event loop and the peers
NextRelay ==
    \/ \E name \in Streams :
        \/ Pipe_Read(name) \/ Pipe_Drain(name) \/ Pipe_WaitClosed(name)
        \/ Connection_Lost(name)
        \/ Peer_Sends(name) \/ Peer_Closes(name) \/ Peer_Resets(name)
        \/ Peer_Accepts(name)
    \/ Gather_Done

NextSocks ==
    \/ Read_Greeting \/ Read_Methods \/ Read_AuthHead \/ Read_Username
    \/ Read_PasswordLen \/ Read_Password \/ Read_Request \/ Read_Address
    \/ Read_DomainLen \/ Read_Domain \/ Read_Port \/ Open_Connection
    \/ NextRelay

SpecSocks == InitSocks /\ [][NextSocks]_vars

\* a connection whose handshake has just ended with the success reply
InitRelay ==
    /\ BotIdle
    /\ LET data == build_pool(1, MaxPort, [p \in Ports |-> <<1>>])
       IN /\ pool_file = [kind |-> "list", items |-> data]
          /\ loads = [start |-> 1, end |-> MaxPort,
                      was |-> <<[kind |-> "absent", items |-> << >>]>>,
                      returned |-> <<[raised |-> FALSE, items |-> data]>>]
          /\ expected_username = data[1].username
          /\ expected_password = data[1].password
    /\ conn = [NewConnection EXCEPT !.pc = "relay", !.step = "connect",
                                    !.connects = 1]
    /\ sock = [client |-> [Socket("open") EXCEPT
                              !.sent = <<5, 2, 1, 0>> \o SocksReply(0)],
               target |-> Socket("open")]
    /\ pipe = [name \in Streams |-> "read"]

\* The event loop runs every task that can go on and every callback it has
\* scheduled; nothing makes a peer send, close or take bytes.
SpecRelay ==
    /\ InitRelay /\ [][NextRelay]_vars
    /\ \A name \in Streams :
          /\ WF_vars(Pipe_Read(name) \/ Pipe_Drain(name) \/ Pipe_WaitClosed(name))
          /\ WF_vars(Connection_Lost(name))
    /\ WF_vars(Gather_Done)

\* ----------------------------------------- the handlers' limit of slots
\* src/proxybot/handlers.py
MAX_ACTIVE_PROXIES_PER_USER == 5

\* a faulty variant of the query below: pl.expires_at >= ts
get_links_not_before(s, user_id, ts) ==
    {l \in DOMAIN s.proxy_links :
        /\ s.proxy_links[l].user_id = user_id
        /\ s.proxy_links[l].status = "active"
        /\ s.proxy_links[l].expires_at >= ts
        /\ s.proxy_links[l].subscription_id \in DOMAIN s.subscriptions
        /\ s.subscriptions[s.proxy_links[l].subscription_id].status = "active"}

\* SELECT ... FROM proxy_links pl JOIN subscriptions s ON s.id = pl.subscription_id
\* WHERE pl.user_id = user_id AND pl.status = 'active' AND pl.expires_at > ts
\*       AND s.status = 'active'
get_active_links_for_user(s, user_id, ts) ==
    {l \in DOMAIN s.proxy_links :
        /\ s.proxy_links[l].user_id = user_id
        /\ s.proxy_links[l].status = "active"
        /\ s.proxy_links[l].expires_at > ts
        /\ s.proxy_links[l].subscription_id \in DOMAIN s.subscriptions
        /\ s.subscriptions[s.proxy_links[l].subscription_id].status = "active"}

\* if active_count + devices_count > MAX_ACTIVE_PROXIES_PER_USER
OverLimit(active_count, devices_count) ==
    active_count + devices_count > MAX_ACTIVE_PROXIES_PER_USER

\* cb_pay: get_payment_for_user; a payment that is not pending is answered
\* "already processed"
Pay_Call(t) ==
    /\ t \in Handlers /\ MayStart(t) /\ ~Aborted
    /\ \E payment_id \in DOMAIN payments :
          IF payments[payment_id].status # "pending"
          THEN Goto(t, [op |-> "pay", pc |-> "done", result |-> "processed",
                        payment_id |-> payment_id])
          ELSE Goto(t, [op |-> "pay", pc |-> "count", payment_id |-> payment_id,
                        user_id |-> payments[payment_id].user_id,
                        devices_count |-> payments[payment_id].devices_count])
    /\ trail' = NoTrail
    /\ Started
    /\ UNCHANGED <<farm, backend, concurrency, syncs, now, tables, txn, saved, before, notices>>

\* admin_state_grant_proxies: the admin names a subscriber and 1, 5 or 15
\* slots; get_user_by_tg_user_id
Grant_Call(t) ==
    /\ t \in Handlers /\ MayStart(t) /\ ~Aborted
    /\ lastid.payments < MaxGrantedPayment
    /\ \E user_id \in {1}, devices_count \in {1, 5} :
          Goto(t, [op |-> "grant", pc |-> "count", user_id |-> user_id,
                   devices_count |-> devices_count])
    /\ trail' = NoTrail
    /\ Started
    /\ UNCHANGED <<farm, backend, concurrency, syncs, now, tables, txn, saved, before, notices>>

\* active_count = len(await db.get_active_links_for_user(user_id)) and the
\* test of the limit; cb_pay then calls the allocation, the grant first
\* creates its payment
Handler_CountActive(t) ==
    /\ \/ At(t, "pay", "count") \/ At(t, "grant", "count")
    /\ IF Aborted
       THEN Error(lastid) /\ Finish(t, "raised")
       ELSE /\ Read
            /\ LET active_count ==
                       Cardinality(get_active_links_for_user(Store, task[t].user_id, now))
               IN IF OverLimit(active_count, task[t].devices_count)
                  THEN Finish(t, "limit")
                  ELSE IF task[t].op = "grant"
                  THEN Goto(t, [pc |-> "create", count |-> active_count])
                  ELSE \E days \in 1..MaxDays :
                          Goto(t, [op |-> "activate", pc |-> "begin",
                                   count |-> active_count,
                                   expires_at |-> now + days, timestamp |-> now])
    /\ before' = [before EXCEPT ![t] =
                      IF serial /\ task'[t].op = "activate" THEN <<Store>> ELSE @]
    /\ UNCHANGED <<farm, backend, concurrency, calls, syncs, now, notices, trail>>

\* create_payment: INSERT INTO payments (...) VALUES (..., 'pending', ...)
\* RETURNING id
Grant_InsertPayment(t) ==
    /\ At(t, "grant", "create")
    /\ IF Aborted
       THEN Error(lastid) /\ Finish(t, "raised")
       ELSE /\ Write([Store EXCEPT
                        !.payments = Put(@, NextId(Store, "payments"),
                            [user_id |-> task[t].user_id,
                             devices_count |-> task[t].devices_count,
                             status |-> "pending"]),
                        !.lastid = UsedId(Store, "payments")])
            /\ Goto(t, [pc |-> "created", payment_id |-> NextId(Store, "payments")])
    /\ UNCHANGED <<farm, backend, concurrency, calls, syncs, now, before, notices, trail>>

\* create_payment's conn.commit(); the grant then calls the allocation
Grant_CommitPayment(t) ==
    /\ At(t, "grant", "created")
    /\ CommitEffect
    /\ \E days \in 1..MaxDays :
          Goto(t, [op |-> "activate", pc |-> "begin",
                   expires_at |-> now + days, timestamp |-> now])
    /\ before' = [before EXCEPT ![t] =
                      IF serial /\ task'[t].op = "activate" THEN <<Store>> ELSE @]
    /\ UNCHANGED <<farm, backend, concurrency, calls, syncs, now, notices, trail>>

RECURSIVE PurchasedAll(_, _)
\* store s after allocations for its payments 1..n, one after the other, each
\* lease running until time 1
PurchasedAll(s, n) ==
    IF n = 0 THEN s ELSE Purchased(PurchasedAll(s, n - 1), n, 1)

\* The PostgreSQL store of an earlier run: a pool of one port more than the
\* limit, subscriber 1 with one-slot leases up to `held` slots, and two
\* one-slot payments of subscriber 1 still pending.
InitLimit ==
    /\ backend = "postgres"
    /\ concurrency = MaxConcurrent
    /\ now = 0
    /\ \E held \in {MAX_ACTIVE_PROXIES_PER_USER - 2, MAX_ACTIVE_PROXIES_PER_USER - 1} :
          LET s == PurchasedAll(
                      [proxy_pool |-> [p \in 1..(MAX_ACTIVE_PROXIES_PER_USER + 1) |->
                                          [id |-> p, username |-> 1, password |-> 1,
                                           status |-> "free", assigned_link_id |-> NULL]],
                       payments |-> [k \in 1..(held + 2) |->
                                        [user_id |-> 1, devices_count |-> 1,
                                         status |-> "pending"]],
                       subscriptions |-> << >>, proxy_links |-> << >>,
                       lastid |-> [proxy_pool |-> MAX_ACTIVE_PROXIES_PER_USER + 1,
                                   payments |-> held + 2,
                                   subscriptions |-> 0, proxy_links |-> 0]], held)
          IN /\ proxy_pool = s.proxy_pool
             /\ payments = s.payments
             /\ subscriptions = s.subscriptions
             /\ proxy_links = s.proxy_links
             /\ lastid = s.lastid
    /\ txn = "IDLE"
    /\ saved = << >>
    /\ task = [t \in Tasks |-> Idle]
    /\ calls = 0
    /\ syncs = 0
    /\ before = [t \in Tasks |-> << >>]
    /\ notices = << >>
    /\ trail = NoTrail
    /\ FarmIdle

\* purchase confirmations and admin grants for one subscriber and the
\* sweep, switching at every await
NextLimit ==
    \/ \E t \in Tasks :
          \/ Pay_Call(t) \/ Grant_Call(t) \/ Handler_CountActive(t)
          \/ Grant_InsertPayment(t) \/ Grant_CommitPayment(t)
          \/ Activate_Begin(t) \/ Activate_UpdatePayment(t)
          \/ Activate_SelectFree(t) \/ Activate_RollbackNone(t)
          \/ Activate_InsertSubscription(t) \/ Activate_InsertLink(t)
          \/ Activate_AssignPool(t) \/ Activate_Commit(t) \/ Activate_Except(t)
          \/ ExpireSteps(t) \/ Return(t)
    \/ Tick

SpecLimit == InitLimit /\ [][NextLimit]_vars

\* ------------------------------------------------- the worker's iterations
\* expiration_worker: while True: try: the sweep; except Exception: log;
\* sleep.  The loop goes on for as long as the bot runs, whatever the sweep
\* did, so an iteration does not count as a call of the run.
Worker_Iteration(t) ==
    /\ t = "expiration_worker" /\ task[t].pc = "idle" /\ ~Returning
    /\ Goto(t, [op |-> "expire", pc |-> "subscriptions", timestamp |-> now])
    /\ UNCHANGED <<farm, backend, concurrency, calls, syncs, now, tables, txn, saved,
                   before, notices, trail>>

\* handlers confirm purchases for as long as the bot runs
Handler_Confirms(t) ==
    /\ t \in Handlers /\ task[t].pc = "idle" /\ ~Returning
    /\ InProgress < concurrency
    /\ t = "h2" => task["h1"].pc # "idle"
    /\ \E payment_id \in DOMAIN payments, days \in 1..MaxDays :
        /\ IdsLeft(payments[payment_id].devices_count)
        /\ Goto(t, [op |-> "activate", pc |-> "begin",
                    payment_id |-> payment_id,
                    user_id |-> payments[payment_id].user_id,
                    devices_count |-> payments[payment_id].devices_count,
                    expires_at |-> now + days, timestamp |-> now])
    /\ UNCHANGED <<farm, backend, concurrency, calls, syncs, now, tables, txn, saved,
                   before, notices, trail>>

\* the steps of a purchase confirmation once it is called
ConfirmSteps(t) ==
    \/ Activate_Begin(t) \/ Activate_UpdatePayment(t)
    \/ Activate_SelectFree(t) \/ Activate_RollbackNone(t)
    \/ Activate_InsertSubscription(t) \/ Activate_InsertLink(t)
    \/ Activate_AssignPool(t) \/ Activate_Commit(t) \/ Activate_Except(t)

\* the steps of a sweep once it is called
SweepSteps(t) ==
    \/ Expire_UpdateSubscriptions(t) \/ Expire_UpdateLinks(t)
    \/ Expire_UpdatePool(t) \/ Expire_SelectUnnotified(t)
    \/ Expire_MarkNotified(t) \/ Expire_Commit(t)

NextWorker ==
    \/ \E t \in Tasks :
          \/ Worker_Iteration(t) \/ SweepSteps(t)
          \/ Handler_Confirms(t) \/ ConfirmSteps(t)
          \/ Return(t)
    \/ Tick

\* The event loop runs every task that is ready: the worker's next iteration
\* and every statement of a call in progress.  (A task is held back here
\* only while another call returns, so that its steps are not enabled
\* without interruption: fairness is the strong one.)  Nothing makes a
\* subscriber confirm a purchase, and nothing makes time pass.
SpecWorker ==
    /\ InitRace /\ [][NextWorker]_vars
    /\ SF_vars(Worker_Iteration("expiration_worker")
                 \/ SweepSteps("expiration_worker")
                 \/ Return("expiration_worker"))
    /\ \A t \in Handlers : SF_vars(ConfirmSteps(t) \/ Return(t))

\* purchase confirmations and cancellations of payments, switching at every
\* await
NextPay == \E t \in Tasks : ActivateSteps(t) \/ CancelSteps(t) \/ Return(t)

SpecPay == InitTasks /\ [][NextPay]_vars

\* ------------------------------------------- the bot and the relay engine
\* The relay engine has written the pool file and listens on every port
\* with the entry's credential; main.run of the bot has loaded the same
\* file into the store (load_proxy_pool, sync_proxy_pool).  The connection
\* is one that the listener of port k accepts.
InitLease ==
    /\ backend = "postgres"
    /\ concurrency = 1
    /\ now = 0
    /\ payments \in StartPayments
    /\ subscriptions = << >>
    /\ proxy_links = << >>
    /\ lastid = [proxy_pool |-> MaxPort, payments |-> MaxPayments,
                 subscriptions |-> 0, proxy_links |-> 0]
    /\ txn = "IDLE"
    /\ saved = << >>
    /\ task = [t \in Tasks |-> Idle]
    /\ calls = 0
    /\ syncs = 0
    /\ before = [t \in Tasks |-> << >>]
    /\ notices = << >>
    /\ trail = NoTrail
    /\ \E k \in Ports :
          LET data == build_pool(1, MaxPort, [p \in Ports |-> <<p>>])
          IN /\ pool_file = [kind |-> "list", items |-> data]
             /\ loads = [start |-> 1, end |-> MaxPort,
                         was |-> <<[kind |-> "absent", items |-> << >>]>>,
                         returned |-> <<[raised |-> FALSE, items |-> data]>>]
             /\ expected_username = data[k].username
             /\ expected_password = data[k].password
             /\ proxy_pool = [p \in Ports |->
                    [id |-> p, username |-> data[p].username,
                     password |-> data[p].password,
                     status |-> "free", assigned_link_id |-> NULL]]
    /\ conn = NewConnection
    /\ sock = [client |-> Socket("open"), target |-> Socket("none")]
    /\ pipe = [name \in Streams |-> "idle"]

\* the port of the listener that accepted the connection
ListenPort == CHOOSE k \in Ports : Username(k) = expected_username

\* what a client has sent so far when it follows the protocol and gives the
\* username and password of slot l as the bot showed them (ASCII text, whose
\* UTF-8 bytes are its code points)
Presents(c, l) ==
    /\ c.eof_at = ""
    /\ c.ver \in {-1, 5} /\ c.nmethods \in {-1, 1} /\ c.methods \in {<< >>, <<2>>}
    /\ c.auth_ver \in {-1, 1}
    /\ c.ulen \in {-1, Len(proxy_links[l].link.username)}
    /\ c.username_raw \in {<< >>, proxy_links[l].link.username}
    /\ c.plen \in {-1, Len(proxy_links[l].link.password)}
    /\ c.password_raw \in {<< >>, proxy_links[l].link.password}

\* some slot of the listener's port whose credentials the client is giving
Follows ==
    \E l \in DOMAIN proxy_links :
        /\ proxy_links[l].link.port = ListenPort
        /\ Presents(conn', l)

\* the steps of handle_client for such a client
Lease_Greeting == Read_Greeting /\ Follows

Lease_Methods == Read_Methods /\ Follows

Lease_AuthHead == Read_AuthHead /\ Follows

Lease_Username == Read_Username /\ Follows

Lease_PasswordLen == Read_PasswordLen /\ Follows

Lease_Password == Read_Password /\ Follows

\* purchases, revoke-all and the sweep, one call at a time, and beside them
\* a client that connects to the port of a slot it was given and
\* authenticates with that slot's credentials
NextLease ==
    \/ \E t \in Tasks :
          \/ ActivateSteps(t) \/ RevokeAllSteps(t) \/ ExpireSteps(t)
          \/ Return(t)
    \/ Tick
    \/ Lease_Greeting \/ Lease_Methods \/ Lease_AuthHead \/ Lease_Username
    \/ Lease_PasswordLen \/ Lease_Password

SpecLease == InitLease /\ [][NextLease]_vars

\* ------------------------------------------------------------ properties
\* the ports of the links an allocate call has created so far (its return
\* value once it has committed)
CreatedPorts(t) == {task[t].created[k].port : k \in 1..Len(task[t].created)}

\* the call of task t returns its links: it has, or has only its commit left
Succeeds(t) ==
    /\ task[t].op = "activate"
    /\ \/ task[t].pc = "commit"
       \/ task[t].pc = "done" /\ task[t].result = "ok"

\* C1: allocate calls in progress at the same time that both succeed hand
\* out disjoint sets of ports: no port goes to two lease slots at once.
C1_DisjointPorts ==
    \A t \in Handlers, u \in Handlers :
        (t # u /\ Succeeds(t) /\ Succeeds(u))
            => CreatedPorts(t) \cap CreatedPorts(u) = {}

Rows(s) == [proxy_pool |-> s.proxy_pool, payments |-> s.payments,
            subscriptions |-> s.subscriptions, proxy_links |-> s.proxy_links]

\* the allocate call of task t has ended, and the store at its start is known
Allocated(t) ==
    /\ task[t].op = "activate" /\ task[t].pc = "done"
    /\ before[t] # << >>

\* fewer entries were free at the start of t's call than the payment asks for
Insufficient(t) ==
    count_free_pool(before[t][1].proxy_pool) < task[t].devices_count

\* C3: an allocate call that finds fewer free entries than the slots asked
\* for returns the failure outcome (None) and leaves the store as it was
\* before the call: entries, leases and slots unchanged, the payment pending
\* as before, nothing left uncommitted.
C3_InsufficientLeavesStore ==
    \A t \in Handlers :
        (Allocated(t) /\ Insufficient(t))
            => /\ task[t].result = "None"
               /\ Store = before[t][1]
               /\ txn = "IDLE"

\* a call for a pending payment has been refused for want of free entries
\* while some entry was free and another bound
C3_Witness ==
    \E t \in Handlers :
        /\ Allocated(t) /\ Insufficient(t)
        /\ PendingPayment(before[t][1], task[t].payment_id, task[t].user_id)
        /\ PendingPayment(Store, task[t].payment_id, task[t].user_id)
        /\ FreePorts(proxy_pool) # {}
        /\ \E p \in DOMAIN proxy_pool : proxy_pool[p].status = "assigned"

\* C4: an allocate call that fails after it has begun to create the lease
\* and before its commit is rolled back as a whole: no lease, slot or
\* assignment of the call remains and the payment is pending again.
C4_FailureRollsBack ==
    \A t \in Handlers :
        (Allocated(t) /\ task[t].result = "raised")
            => /\ Rows(Store) = Rows(before[t][1])
               /\ txn = "IDLE"

\* a call has failed after it had inserted a link row (PostgreSQL keeps the
\* used-up ids, which shows how far the call had come)
C4_Witness ==
    \E t \in Handlers :
        /\ Allocated(t) /\ task[t].result = "raised"
        /\ lastid.proxy_links > before[t][1].lastid.proxy_links
        /\ PendingPayment(Store, task[t].payment_id, task[t].user_id)

\* the slots (link rows) of lease x in store s
SlotsOf(s, x) == {l \in DOMAIN s.proxy_links : s.proxy_links[l].subscription_id = x}

\* lease x of store s is whole: it has as many slots as its payment has
\* devices, numbered 1..n, and each slot still active is bound to one entry
WholeLease(s, x) ==
    LET n == s.payments[s.subscriptions[x].payment_id].devices_count
    IN /\ Cardinality(SlotsOf(s, x)) = n
       /\ {s.proxy_links[l].device_number : l \in SlotsOf(s, x)} = 1..n
       /\ \A l \in SlotsOf(s, x) :
             s.proxy_links[l].status = "active"
                 => Cardinality(BoundTo(s.proxy_pool, {l})) = 1

\* C5: in every committed state of the store, whatever runs beside the
\* allocation on the shared connection, every lease is whole; no commit of
\* another operation makes a half-built allocation durable.
C5_CommittedLeasesWhole ==
    \A x \in DOMAIN Committed.subscriptions : WholeLease(Committed, x)

\* C6: a slot is expired and its pool entry freed in one atomic step: no
\* state that a call of another task can observe has an expired slot with a
\* pool entry still assigned to it.
C6_ExpiredSlotsFreed ==
    \A p \in DOMAIN proxy_pool :
        LET l == proxy_pool[p].assigned_link_id
        IN (proxy_pool[p].status = "assigned" /\ l \in DOMAIN proxy_links)
              => proxy_links[l].status # "expired"

\* a reconciliation call is at work (in a serial run every step is then its own)
Syncing == \E t \in Tasks : task[t].op = "sync" /\ task[t].pc # "done"

\* C7: sync_proxy_pool changes no assigned entry: username, password,
\* status and assigned_link_id of every assigned entry are after each of
\* its statements what they were before.
C7_SyncKeepsAssigned ==
    [][Syncing =>
          \A p \in DOMAIN proxy_pool :
              proxy_pool[p].status = "assigned"
                  => /\ p \in DOMAIN proxy_pool'
                     /\ proxy_pool'[p] = proxy_pool[p]]_vars

\* C8: when sync_proxy_pool returns, no free entry with a port outside the
\* declared set is left, and none of its statements has removed an assigned
\* entry, declared or not.
C8_SyncRemovesUndeclaredFree ==
    [][/\ \A t \in Tasks :
             (task'[t].op = "sync" /\ task'[t].pc = "done" /\ task[t].pc # "done"
                 /\ task'[t].result = "ok")
                 => \A p \in DOMAIN proxy_pool' :
                       proxy_pool'[p].status = "free" => p \in task'[t].rows
       /\ Syncing =>
             \A p \in DOMAIN proxy_pool :
                 proxy_pool[p].status = "assigned" => p \in DOMAIN proxy_pool']_vars

C10_NotifiedOnce ==
    /\ \A x \in DOMAIN notices : notices[x] = 1
    /\ trail.stage = 5 => trail.count = 0

\* two sweeps in a row, the first of which returned a subscriber whose
\* lease is still expired after the second
C10_Witness ==
    /\ trail.stage = 5 /\ trail.first > 0
    /\ \E x \in DOMAIN notices :
          /\ subscriptions[x].status = "expired"
          /\ subscriptions[x].notified_expired = 1

\* the sweep of task t has returned, and the store at its start is known
Swept(t) ==
    /\ task[t].op = "expire" /\ task[t].pc = "done" /\ task[t].result = "ok"
    /\ before[t] # << >>

\* C11: after a sweep run at time ts every lease and every slot with
\* expires_at <= ts is expired and every entry that was bound to such a slot
\* is free with no binding; every lease, slot and entry binding that was
\* active before the sweep with expires_at > ts is as it was.
C11_SweepExpiresDue ==
    \A t \in Tasks :
        Swept(t) =>
            LET b == before[t][1]
                ts == task[t].timestamp
            IN /\ \A x \in DOMAIN subscriptions :
                      subscriptions[x].expires_at <= ts
                          => subscriptions[x].status = "expired"
               /\ \A l \in DOMAIN proxy_links :
                      proxy_links[l].expires_at <= ts
                          => /\ proxy_links[l].status = "expired"
                             /\ BoundTo(proxy_pool, {l}) = {}
                             /\ \A p \in BoundTo(b.proxy_pool, {l}) :
                                    proxy_pool[p].status = "free"
               /\ \A x \in DOMAIN b.subscriptions :
                      (b.subscriptions[x].status = "active"
                           /\ b.subscriptions[x].expires_at > ts)
                          => subscriptions[x] = b.subscriptions[x]
               /\ \A l \in DOMAIN b.proxy_links :
                      (b.proxy_links[l].status = "active"
                           /\ b.proxy_links[l].expires_at > ts)
                          => /\ proxy_links[l] = b.proxy_links[l]
                             /\ \A p \in BoundTo(b.proxy_pool, {l}) :
                                    proxy_pool[p] = b.proxy_pool[p]

\* a sweep has expired a due slot and freed its entry and has passed over a
\* slot that is not yet due and its entry
C11_Witness ==
    \E t \in Tasks :
        /\ Swept(t)
        /\ \E l \in DOMAIN proxy_links :
              /\ before[t][1].proxy_links[l].status = "active"
              /\ proxy_links[l].status = "expired"
              /\ BoundTo(before[t][1].proxy_pool, {l}) # {}
              /\ BoundTo(before[t][1].proxy_pool, {l}) \subseteq FreePorts(proxy_pool)
        /\ \E l \in DOMAIN proxy_links :
              /\ proxy_links[l].status = "active"
              /\ proxy_links[l].expires_at > task[t].timestamp
              /\ BoundTo(proxy_pool, {l}) # {}

\* the revoke call of task t has ended, and the store at its start is known
Revoked(t) ==
    /\ task[t].op = "revoke" /\ task[t].pc = "done"
    /\ before[t] # << >>

\* C12: revoking a slot id that is not owned by the given subscriber returns
\* False (0 freed) and leaves the slot, its lease and its pool entry, and
\* the rest of the store, exactly as they were.
C12_NotOwnedRejected ==
    \A t \in Handlers :
        (/\ Revoked(t)
         /\ before[t][1].proxy_links[task[t].link_id].user_id # task[t].user_id)
            => /\ task[t].result = "False"
               /\ Store = before[t][1]
               /\ txn = "IDLE"

\* a subscriber's revoke of another subscriber's active, bound slot has ended
C12_Witness ==
    \E t \in Handlers :
        /\ Revoked(t)
        /\ proxy_links[task[t].link_id].user_id # task[t].user_id
        /\ proxy_links[task[t].link_id].status = "active"
        /\ BoundTo(proxy_pool, {task[t].link_id}) # {}

\* the revoke-all call of task t has ended, and the store at its start is known
RevokedAll(t) ==
    /\ task[t].op = "revoke_all" /\ task[t].pc = "done"
    /\ before[t] # << >>

\* the slots of subscriber user_id in store s
SlotsOfUser(s, user_id) ==
    {l \in DOMAIN s.proxy_links : s.proxy_links[l].user_id = user_id}

\* C13: revoking a slot that is already expired, by an earlier revoke or by
\* a sweep, returns 0 (False) and changes nothing in the store, whatever its
\* pool entry is bound to by now; revoke-all for a subscriber whose slots
\* are all expired returns 0 and changes nothing, and passes over every
\* expired slot.
C13_RevokeIdempotent ==
    /\ \A t \in Handlers :
          (/\ Revoked(t)
           /\ before[t][1].proxy_links[task[t].link_id].status = "expired")
              => /\ task[t].result = "False"
                 /\ Store = before[t][1]
                 /\ txn = "IDLE"
    /\ \A t \in Handlers :
          (RevokedAll(t) /\ task[t].result = "ok")
              => LET b == before[t][1]
                 IN /\ \A l \in DOMAIN b.proxy_links :
                           b.proxy_links[l].status = "expired"
                               => proxy_links[l] = b.proxy_links[l]
                    /\ (\A l \in SlotsOfUser(b, task[t].user_id) :
                             b.proxy_links[l].status = "expired")
                           => /\ task[t].count = 0
                              /\ Store = b
                              /\ txn = "IDLE"

\* the owner's revoke of an expired slot has ended while the entry of the
\* slot's port is bound to another slot
C13_Witness ==
    \E t \in Handlers :
        /\ Revoked(t)
        /\ proxy_links[task[t].link_id].status = "expired"
        /\ proxy_links[task[t].link_id].user_id = task[t].user_id
        /\ \E p \in DOMAIN proxy_pool :
              /\ p = proxy_links[task[t].link_id].link.port
              /\ proxy_pool[p].status = "assigned"
              /\ proxy_pool[p].assigned_link_id # task[t].link_id

\* the revoke call of task t has returned True
RevokedOne(t) == Revoked(t) /\ task[t].result = "True"

\* what a revoke of one slot does apart from the lease's status: the slot
\* is expired as of the revoke, its entry is free, and every other slot,
\* every other entry, every other lease and every payment is as it was
RevokedSlotOnly(t) ==
    LET b == before[t][1]
        l == task[t].link_id
        x == b.proxy_links[l].subscription_id
    IN /\ proxy_links[l] = [b.proxy_links[l] EXCEPT !.status = "expired",
                                                   !.expires_at = task[t].timestamp]
       /\ \A k \in DOMAIN b.proxy_links : k # l => proxy_links[k] = b.proxy_links[k]
       /\ \A p \in DOMAIN b.proxy_pool :
              proxy_pool[p] = IF b.proxy_pool[p].assigned_link_id = l
                              THEN [b.proxy_pool[p] EXCEPT !.status = "free",
                                                          !.assigned_link_id = NULL]
                              ELSE b.proxy_pool[p]
       /\ \A y \in DOMAIN b.subscriptions :
              IF y = x
              THEN subscriptions[y] \in {b.subscriptions[y],
                       [b.subscriptions[y] EXCEPT !.status = "expired"]}
              ELSE subscriptions[y] = b.subscriptions[y]
       /\ payments = b.payments
       /\ txn = "IDLE"

\* C14 as stated: a revoke of one active slot expires the slot and frees
\* its entry, and expires the lease exactly if no other slot of the lease
\* remains active; the rest is unchanged.
C14_LeaseExpiredIffNoneActive ==
    \A t \in Handlers :
        RevokedOne(t) =>
            LET b == before[t][1]
                x == b.proxy_links[task[t].link_id].subscription_id
            IN /\ RevokedSlotOnly(t)
               /\ b.subscriptions[x].status = "active"
                     => (subscriptions[x].status = "expired"
                            <=> ~ \E k \in SlotsOf(Store, x) :
                                     proxy_links[k].status = "active")

\* C14 amended: the lease is expired exactly if no other slot of the lease
\* remains active with expires_at later than the time of the revoke.
C14_LeaseExpiredIffNoneLive ==
    \A t \in Handlers :
        RevokedOne(t) =>
            LET b == before[t][1]
                x == b.proxy_links[task[t].link_id].subscription_id
            IN /\ RevokedSlotOnly(t)
               /\ b.subscriptions[x].status = "active"
                     => (subscriptions[x].status = "expired"
                            <=> ~ \E k \in SlotsOf(Store, x) :
                                     /\ proxy_links[k].status = "active"
                                     /\ proxy_links[k].expires_at > task[t].timestamp)

\* one slot of a lease has been revoked while its other slot, active but
\* past its expiry and not yet swept, is still bound
C14_Witness ==
    \E t \in Handlers :
        /\ RevokedOne(t)
        /\ \E k \in SlotsOf(Store, proxy_links[task[t].link_id].subscription_id) :
              /\ proxy_links[k].status = "active"
              /\ proxy_links[k].expires_at <= task[t].timestamp
              /\ BoundTo(proxy_pool, {k}) # {}

Revoking(t) ==
    /\ task[t].op = "revoke"
    /\ \/ task[t].pc \in {"link", "pool", "subscription", "commit"}
       \/ task[t].pc = "done" /\ task[t].result = "True"
    /\ task[t].link_id \in DOMAIN proxy_links

\* the entries of the port slot l was built from that are bound to another slot
Rebound(l) ==
    {p \in DOMAIN proxy_pool :
        /\ p = proxy_links[l].link.port
        /\ proxy_pool[p].assigned_link_id \notin {NULL, l}}

\* C16: when a revoke and an allocate race on a pool entry the outcome is
\* that of a serial order: the entry is bound to a new slot only when the
\* revoke has expired the old one, so at no point is the entry the
\* credential of the revoked slot, still active, and of a new slot.
C16_RevokedBeforeRebound ==
    \A t \in Handlers :
        (Revoking(t) /\ Rebound(task[t].link_id) # {})
            => proxy_links[task[t].link_id].status = "expired"

\* a sweep is in progress and has run its UPDATE of proxy_links
SweepPastLinks ==
    /\ task["expiration_worker"].op = "expire"
    /\ task["expiration_worker"].pc \in {"pool", "select", "notified", "commit", "done"}

\* C17: when a revoke and a sweep target the same slot, whichever acts
\* second finds the slot no longer active and changes nothing: a revoke that
\* has found its slot active and is about to expire it and free its entry
\* does so on a slot the sweep has not expired in the meantime.
C17_SecondFindsNoActiveSlot ==
    \A t \in Handlers :
        (/\ task[t].op = "revoke" /\ task[t].pc = "link"
         /\ task[t].link_id \in DOMAIN proxy_links
         /\ SweepPastLinks)
            => proxy_links[task[t].link_id].status = "active"

\* the allocation of task t is about to bind a row it has selected and
\* another allocation has taken that row in the meantime
Conflict(t) ==
    /\ task[t].op = "activate" /\ task[t].pc = "assign"
    /\ ~Aborted
    /\ AssignMatches(proxy_pool, task[t].proxy_rows[task[t].device_number].id) = {}

\* C18: a transient conflict during an allocate call is retried inside the
\* call before any outcome is reported to the caller: the call that finds
\* its selected entry taken starts over instead of raising.
C18_ConflictRetried ==
    [][\A t \in Handlers :
          (Conflict(t) /\ task'[t].pc # task[t].pc) => task'[t].pc = "begin"]_vars

\* C19: an allocate call that meets no store error reports the failure
\* outcome (None, which the caller presents as an insufficient pool)
\* exactly if fewer entries are free than the slots asked for; with enough
\* free entries it succeeds and returns as many slots as were asked for.
C19_NoneIffInsufficient ==
    \A t \in Handlers :
        (Allocated(t) /\ task[t].result # "raised")
            => /\ task[t].result = "None" <=> Insufficient(t)
               /\ ~Insufficient(t)
                     => /\ task[t].result = "ok"
                        /\ Len(task[t].created) = task[t].devices_count

\* the position of port p among the ports of S, counted from the lowest
Rank(p, S) == Cardinality({q \in S : q <= p})

\* C20: a successful allocate for n slots binds exactly the n free entries
\* with the lowest ports, and slot number i is bound to the i-th lowest of
\* them; the call returns these slots in that order.
C20_LowestPortsInOrder ==
    \A t \in Handlers :
        (Allocated(t) /\ task[t].result = "ok")
            => LET b == before[t][1]
                   n == task[t].devices_count
                   free == FreePorts(b.proxy_pool)
                   new == DOMAIN proxy_links \ DOMAIN b.proxy_links
               IN /\ Cardinality(new) = n
                  /\ free \ FreePorts(proxy_pool) = {p \in free : Rank(p, free) <= n}
                  /\ \A l \in new :
                        /\ proxy_links[l].link.port \in free
                        /\ Rank(proxy_links[l].link.port, free)
                              = proxy_links[l].device_number
                        /\ proxy_pool[proxy_links[l].link.port].assigned_link_id = l
                  /\ Len(task[t].created) = n
                  /\ \A i \in 1..Len(task[t].created) :
                        /\ task[t].created[i].proxy_id \in new
                        /\ proxy_links[task[t].created[i].proxy_id].device_number = i
                        /\ task[t].created[i].port
                              = proxy_links[task[t].created[i].proxy_id].link.port

\* an allocation has succeeded where more entries were free than it asked
\* for, and has left a free entry
C20_Witness ==
    \E t \in Handlers :
        /\ Allocated(t) /\ task[t].result = "ok"
        /\ Cardinality(FreePorts(before[t][1].proxy_pool)) > task[t].devices_count
        /\ FreePorts(proxy_pool) # {}

\* ------------------------------------------- properties of the relay engine
\* the client's stream has been closed by the handler
ClientClosed == sock.client.state \in {"closing", "closed"}

\* C21: when the method list of the greeting does not contain 0x02, the
\* server has written exactly the two bytes 05 FF, has closed the
\* connection and has read nothing after the method list.
C21_NoMethodRefused ==
    (/\ conn.step = "methods" /\ conn.eof_at = ""
     /\ \A k \in 1..Len(conn.methods) : conn.methods[k] # 2)
        => /\ sock.client.sent = <<5, 255>>
           /\ ClientClosed
           /\ conn.pc = "done"
           /\ conn.nread = 2 + Len(conn.methods)

C21_Witness ==
    /\ conn.step = "methods" /\ conn.eof_at = ""
    /\ conn.methods # << >> /\ \A k \in 1..Len(conn.methods) : conn.methods[k] # 2
    /\ sock.client.sent = <<5, 255>>
    /\ sock.client.state = "closed"

\* C22: when the version byte of the greeting is not 5, or the stream ends
\* before the greeting (version, method count, that many methods) is
\* complete, the server has closed the connection without writing a byte.
C22_BadGreetingSilent ==
    (\/ conn.step = "greeting" /\ conn.eof_at = "" /\ conn.ver # 5
     \/ conn.eof_at \in {"greeting", "methods"})
        => /\ sock.client.sent = << >>
           /\ ClientClosed
           /\ conn.pc = "done"

C22_Witness ==
    /\ conn.eof_at = "methods" /\ conn.ver = 5 /\ conn.nmethods > 0
    /\ sock.client.sent = << >>
    /\ sock.client.state = "closed"

\* C23: the authentication succeeds only for the credential's own bytes:
\* when the username or the password that was submitted differs in any byte
\* from the credential of the listening port (ASCII text, whose bytes are
\* its code points), the reply is 01 01 and the connection is closed.
C23_AuthOnlyByteEqual ==
    (/\ conn.step = "password" /\ conn.eof_at = ""
     /\ ~(/\ conn.username_raw = expected_username
          /\ conn.password_raw = expected_password))
        => /\ sock.client.sent = <<5, 2, 1, 1>>
           /\ ClientClosed
           /\ conn.pc = "done"

\* C24: in the auth subnegotiation a version byte other than 0x01 gets the
\* reply 01 01 and the connection is closed; when the stream ends before
\* the username or the password frame is complete, the connection is closed
\* and nothing has been written after the method selection 05 02.
C24_AuthFraming ==
    /\ (conn.step = "auth_head" /\ conn.eof_at = "" /\ conn.auth_ver # 1)
          => /\ sock.client.sent = <<5, 2, 1, 1>>
             /\ ClientClosed
             /\ conn.pc = "done"
    /\ (conn.eof_at \in {"auth_head", "username", "password_len", "password"})
          => /\ sock.client.sent = <<5, 2>>
             /\ ClientClosed
             /\ conn.pc = "done"

C24_Witness ==
    /\ conn.eof_at = "password" /\ conn.auth_ver = 1 /\ conn.plen > 0
    /\ sock.client.sent = <<5, 2>>
    /\ sock.client.state = "closed"

\* a request head has been read whose command is not CONNECT
OtherCommand == conn.step = "request" /\ conn.eof_at = "" /\ conn.cmd # 1

OtherAddressType ==
    /\ conn.step = "request" /\ conn.eof_at = ""
    /\ conn.ver = 5 /\ conn.cmd = 1 /\ conn.atyp \notin {1, 3, 4}

\* the bytes of a handshake up to the request head and with it
ReadToRequest ==
    9 + Len(conn.methods) + Len(conn.username_raw) + Len(conn.password_raw)

ConnectFailed == conn.step = "connect" /\ sock.target.state = "none"

\* a pipe_stream task has been started
RelayStarted == \E name \in Streams : pipe[name] # "idle"

\* the first bytes written to the client are those of a handshake that
\* ended with the success reply
SuccessReplied ==
    /\ Len(sock.client.sent) >= 14
    /\ SubSeq(sock.client.sent, 1, 14)
          = <<5, 2, 1, 0>> \o <<5, 0, 0, 1, 0, 0, 0, 0, 0, 0>>

DirectionEnded == \E name \in Streams : pipe[name] \in {"wait_closed", "done"}

\* both sockets are closed and handle_client has returned
TornDown ==
    /\ sock.client.state = "closed" /\ sock.target.state = "closed"
    /\ conn.pc = "done"

\* C28: once either direction of the relay has reached end-of-stream or an
\* error, the client's socket and the upstream's socket are eventually both
\* closed and handle_client returns.
C28_RelayTornDown == DirectionEnded ~> TornDown

\* the steps of handle_client in the order of its code, each with the steps
\* that may follow it
StepOrder ==
    {<<"greeting", "methods">>, <<"methods", "auth_head">>,
     <<"auth_head", "username">>, <<"username", "password_len">>,
     <<"password_len", "password">>, <<"password", "request">>,
     <<"request", "ipv4">>, <<"request", "ipv6">>,
     <<"request", "domain_len">>, <<"domain_len", "domain">>,
     <<"ipv4", "port">>, <<"ipv6", "port">>, <<"domain", "port">>,
     <<"port", "connect">>, <<"connect", "relay">>, <<"relay", "done">>}

\* what the server has written to the client when it waits at a step
RepliesAt(pc) ==
    IF pc \in {"greeting", "methods"} THEN << >>
    ELSE IF pc \in {"auth_head", "username", "password_len", "password"}
    THEN <<5, 2>>
    ELSE <<5, 2, 1, 0>>

\* the server has written the auth success reply after the method selection
AuthSuccessReplied ==
    /\ Len(sock.client.sent) >= 4
    /\ SubSeq(sock.client.sent, 1, 4) = <<5, 2, 1, 0>>

\* the server has written a reply that refuses: no acceptable method, wrong
\* credentials, or a request reply whose code is not zero
ErrorReplied ==
    LET sent == sock.client.sent
    IN \/ Len(sent) >= 2 /\ sent[2] = 255
       \/ Len(sent) >= 4 /\ sent[4] # 0
       \/ Len(sent) >= 6 /\ sent[6] # 0

\* C29: the steps of a connection follow one another in the order greeting,
\* method selection, auth subnegotiation, auth reply, request, upstream
\* connect, relay, and the replies written so far are those of the steps
\* passed; no upstream connection is attempted and no byte is relayed unless
\* the auth success reply 01 00 has been written; after an error reply the
\* server writes nothing more to the client and opens no upstream connection.
C29_StrictlySequential ==
    /\ [](/\ conn.pc \notin {"relay", "done"}
              => sock.client.sent = RepliesAt(conn.pc)
          /\ (\/ conn.connects > 0
              \/ sock.target.state # "none"
              \/ sock.target.sent # << >>
              \/ RelayStarted) => AuthSuccessReplied
          /\ Len(sock.client.sent) >= 6 /\ sock.client.sent[6] = 0
              => conn.connects > 0 /\ RelayStarted)
    /\ [][/\ conn'.pc # conn.pc
              => \/ <<conn.pc, conn'.pc>> \in StepOrder
                 \/ conn'.pc = "done"
          /\ ErrorReplied
              => /\ sock'.client.sent = sock.client.sent
                 /\ sock'.target.state = "none"
                 /\ conn'.connects = conn.connects]_vars

\* a connection went through every step, relayed bytes to the upstream and
\* ended
C29_Witness ==
    /\ conn.pc = "done" /\ conn.step = "relay"
    /\ SuccessReplied
    /\ sock.target.sent # << >>
    /\ sock.client.state = "closed" /\ sock.target.state = "closed"

\* the persisted description is a list of well-formed entries whose port set
\* is the range start..end
WellFormedForRange(file, start, end) ==
    /\ file.kind = "list"
    /\ \A k \in 1..Len(file.items) :
          /\ file.items[k].dict
          /\ file.items[k].port \in start..end
          /\ file.items[k].username # << >>
          /\ file.items[k].password # << >>
    /\ {file.items[k].port : k \in 1..Len(file.items)} = start..end

\* the file as call k of load_or_create_pool left it
FileAfter(k) == IF k < Len(loads.was) THEN loads.was[k + 1] ELSE pool_file

\* items holds one well-formed entry for every port of start..end, in order
CoversRange(items, start, end) ==
    /\ Len(items) = end - start + 1
    /\ \A k \in 1..Len(items) :
          /\ items[k].dict /\ items[k].port = start + k - 1
          /\ items[k].username # << >> /\ items[k].password # << >>

\* C30: every call of load_or_create_pool returns a description; it returns
\* the persisted one and leaves the file as it was if and only if the file
\* holds a list of well-formed entries whose port set is the expected range;
\* otherwise it returns credentials for every port of the range and the file
\* holds them afterwards; a following call with the same range returns the
\* same description.
C30_ReuseIffCompatible ==
    \A k \in 1..Len(loads.returned) :
        LET was == loads.was[k]
            ret == loads.returned[k]
        IN /\ ~ret.raised
           /\ WellFormedForRange(was, loads.start, loads.end)
                 <=> /\ was.kind = "list" /\ ret.items = was.items
                     /\ FileAfter(k) = was
           /\ ~WellFormedForRange(was, loads.start, loads.end)
                 => /\ CoversRange(ret.items, loads.start, loads.end)
                    /\ FileAfter(k) = [kind |-> "list", items |-> ret.items]
           /\ k > 1 => ret.items = loads.returned[k - 1].items

\* ------------------------------------------- properties of store and relay
\* the pool entries of store s that are assigned to slot l
EntriesOf(s, l) ==
    {p \in DOMAIN s.proxy_pool :
        /\ s.proxy_pool[p].status = "assigned"
        /\ s.proxy_pool[p].assigned_link_id = l}

\* C33: in every state of the committed store, every slot with status
\* active has exactly one pool entry assigned to it, and every pool entry
\* with status assigned refers to a slot whose status is active.
C33_ActiveSlotsBound ==
    LET s == Committed
    IN /\ \A l \in DOMAIN s.proxy_links :
             s.proxy_links[l].status = "active"
                 => Cardinality(EntriesOf(s, l)) = 1
       /\ \A p \in DOMAIN s.proxy_pool :
             s.proxy_pool[p].status = "assigned"
                 => /\ s.proxy_pool[p].assigned_link_id \in DOMAIN s.proxy_links
                    /\ s.proxy_links[s.proxy_pool[p].assigned_link_id].status
                           = "active"

\* the server answers the subnegotiation of a client that has given the
\* credentials of slot l to the listener of the slot's port
Answers(l) ==
    /\ conn.pc = "password" /\ conn'.step = "password"
    /\ proxy_links[l].link.port = ListenPort
    /\ conn'.username_raw = proxy_links[l].link.username
    /\ conn'.password_raw = proxy_links[l].link.password

\* in the committed store slot l has expired and its pool entry is no
\* longer bound to it
Reclaimed(l) ==
    /\ l \in DOMAIN Committed.proxy_links
    /\ Committed.proxy_links[l].status = "expired"
    /\ Committed.proxy_pool[proxy_links[l].link.port].assigned_link_id # l

\* C31: when the credentials of a slot that has expired (by revoke or by the
\* sweep) and whose port has been reclaimed are given to the relay engine,
\* it refuses them (01 01), also when the port is leased to another
\* subscriber by then.
C31_ExpiredCredentialsRefused ==
    [][\A l \in DOMAIN proxy_links :
          (Reclaimed(l) /\ Answers(l)) => sock'.client.sent = <<5, 2, 1, 1>>]_vars

\* the leases of the committed store that were created for payment p
LeasesFor(p) ==
    {x \in DOMAIN Committed.subscriptions :
        Committed.subscriptions[x].payment_id = p}

\* a call of cancel_pending_payment for a payment that is paid, by its owner
\* or by anyone else, is at its UPDATE
CancelsPaid(t) ==
    /\ At(t, "cancel", "update")
    /\ Committed.payments[task[t].payment_id].status = "paid"
    /\ LeasesFor(task[t].payment_id) # {}

\* C32: over every interleaving of allocate and cancel calls, a payment has
\* at most one lease; when no call is in progress it is paid exactly if one
\* lease was created for it; its status only goes from pending to paid or
\* from pending to cancelled; a cancel of a payment whose allocation has
\* succeeded changes nothing and returns False.
C32_PaymentYieldsOneLease ==
    /\ [](\A p \in DOMAIN Committed.payments :
             /\ Cardinality(LeasesFor(p)) <= 1
             /\ AllIdle => (Committed.payments[p].status = "paid"
                               <=> Cardinality(LeasesFor(p)) = 1))
    /\ [][/\ \A p \in DOMAIN Committed.payments :
               \/ Committed'.payments[p].status = Committed.payments[p].status
               \/ /\ Committed.payments[p].status = "pending"
                  /\ Committed'.payments[p].status \in {"paid", "cancelled"}
          /\ \A t \in Handlers :
               (CancelsPaid(t) /\ task'[t] # task[t])
                   => /\ tables' = tables
                      /\ task'[t].pc = "commit" /\ task'[t].count = 0]_vars

\* no sweep is between its first statement and its return
NoSweepRunning ==
    task["expiration_worker"].pc \in {"idle", "done"}

\* some sweep has returned the subscriber of lease x for one of the
\* subscriber's leases
SubscriberReturned(x) ==
    \E y \in DOMAIN notices :
        /\ y \in DOMAIN subscriptions
        /\ subscriptions[y].user_id = subscriptions[x].user_id

\* C34: under every interleaving of revoke calls with the statements of a
\* sweep, a lease is marked notified only if a sweep has returned its
\* subscriber; so every lease that has expired, by the sweep or by a revoke
\* of its last slot, is still to be returned or has been returned.
C34_NotifiedOnlyIfReturned ==
    NoSweepRunning
        => \A x \in DOMAIN Committed.subscriptions :
              Committed.subscriptions[x].notified_expired = 1
                  => SubscriberReturned(x)

\* C35: a sweep returns a subscriber only if a lease of that subscriber has
\* an expires_at that has passed at the sweep's time; a lease that a revoke
\* expired before its expires_at does not make the sweep return its
\* subscriber.
C35_ReturnedOnlyWhenDue ==
    \A t \in Tasks :
        (task[t].op = "expire" /\ task[t].pc = "done" /\ task[t].result = "ok")
            => \A user_id \in task[t].rows :
                  \E x \in DOMAIN subscriptions :
                      /\ subscriptions[x].user_id = user_id
                      /\ subscriptions[x].expires_at <= task[t].timestamp

\* C39: under every interleaving of purchase confirmations and admin grants
\* for one subscriber, the subscriber's active slots in the committed store
\* are never more than MAX_ACTIVE_PROXIES_PER_USER.
C39_AtMostFiveActive ==
    \A user_id \in Users :
        Cardinality(get_active_links_for_user(Committed, user_id, now))
            <= MAX_ACTIVE_PROXIES_PER_USER

\* the slots with status active whose lease has status active
ActiveUnderActiveLease ==
    {l \in DOMAIN proxy_links :
        /\ proxy_links[l].status = "active"
        /\ proxy_links[l].subscription_id \in DOMAIN subscriptions
        /\ subscriptions[proxy_links[l].subscription_id].status = "active"}

\* active_slots_for the slot's subscriber at time ts returns slot l
Listed(l, ts) ==
    l \in get_active_links_for_user(Store, proxy_links[l].user_id, ts)

\* a sweep at time ts would set slot l to expired
SweepEligible(l, ts) ==
    /\ proxy_links[l].status = "active"
    /\ ExpireDueLinks(Store, ts).proxy_links[l].status = "expired"

\* C37: at every time ts, a slot with status active under an active lease
\* is returned by active_slots_for or is eligible for the sweep, and not
\* both; active_slots_for returns no slot whose expires_at has passed, whose
\* status is expired or whose lease is expired.
C37_ListedOrSweepEligible ==
    \A ts \in 0..(MaxTime + MaxDays + 1) :
        LET listed == UNION {get_active_links_for_user(Store, user_id, ts) :
                                user_id \in Users}
            swept == ExpireDueLinks(Store, ts).proxy_links
        IN /\ \A l \in ActiveUnderActiveLease :
                 (l \in listed) # (swept[l].status = "expired")
           /\ \A l \in listed :
                 /\ proxy_links[l].expires_at > ts
                 /\ l \in ActiveUnderActiveLease

\* a handler has counted a subscriber's slots at a time when one of them
\* had passed its expires_at and was not yet swept, and another had not
\* passed it
C37_Witness ==
    \E t \in Handlers :
        /\ task[t].op = "activate" /\ task[t].pc = "begin"
        /\ task[t].count
              = Cardinality(get_active_links_for_user(Store, task[t].user_id, now))
        /\ \E l \in ActiveUnderActiveLease, k \in ActiveUnderActiveLease :
              /\ proxy_links[l].user_id = task[t].user_id
              /\ proxy_links[k].user_id = task[t].user_id
              /\ SweepEligible(l, now) /\ ~Listed(l, now)
              /\ Listed(k, now) /\ ~SweepEligible(k, now)

\* the store class create_database does not return in this run
OtherBackend == IF backend = "postgres" THEN "sqlite" ELSE "postgres"

\* the entries of a pool by port: credentials, status and binding
Entries(pool) ==
    [p \in DOMAIN pool |->
        <<pool[p].username, pool[p].password, pool[p].status,
          pool[p].assigned_link_id>>]

\* C38: for every pool state and every declared description, the empty one
\* included, the pool that sync_proxy_pool of the run's store class leaves
\* is the pool that sync_proxy_pool of the other store class leaves from
\* the same state: the same entries with the same credentials, status and
\* bindings.
C38_BackendsSyncAlike ==
    \A t \in Tasks :
        (task[t].op = "sync" /\ task[t].pc = "done" /\ task[t].result = "ok")
            => Entries(proxy_pool)
                  = Entries(sync_proxy_pool(OtherBackend, before[t][1],
                                            task[t].proxy_rows).proxy_pool)

\* in the committed store slot l is active and its expires_at has passed
DueSlot(l) ==
    /\ l \in DOMAIN Committed.proxy_links
    /\ Committed.proxy_links[l].status = "active"
    /\ Committed.proxy_links[l].expires_at <= now

\* in the committed store slot l is expired and no pool entry is bound to it
ExpiredAndFreed(l) ==
    /\ l \in DOMAIN Committed.proxy_links
    /\ Committed.proxy_links[l].status = "expired"
    /\ \A p \in DOMAIN Committed.proxy_pool :
          Committed.proxy_pool[p].assigned_link_id # l

\* C36: with the expiration worker scheduled fairly, every slot whose
\* expires_at has passed is eventually expired, and its pool entry free, in
\* the committed store, also when iterations of the worker raise.
C36_DueSlotsExpire ==
    \A l \in 1..MaxLinks : DueSlot(l) ~> ExpiredAndFreed(l)
====
